---- MODULE Spec2Model ----
(***************************************************************************)
(* Model of the replay scheduler (src/src/replay.py) and of the meeting    *)
(* synthesizer (src/src/synthetic.py).                                     *)
(*                                                                         *)
(* Units.  Timestamps are whole seconds.  config.TIME_SCALE is a float;    *)
(* it is represented by the integer time_scale = TIME_SCALE * ScaleDen,    *)
(* and every delay is kept in units of 1/ScaleDen second, so that the      *)
(* product (current - previous).total_seconds() * TIME_SCALE is exact.     *)
(***************************************************************************)
EXTENDS Integers, Sequences, FiniteSets, TLC

\* ------------------------------------------------------------------ bounds
MaxLen == 3        \* entries in a transaction log
MaxTs == 1         \* the timestamps of log entries are 0 and MaxTs
MaxIdx == 2        \* the chunk indices of log entries are 0, 1 and MaxIdx
MaxFail == 1       \* failures (of a send, of an append to a webm file) of
                   \* the environment during one replay
MaxClock == 10     \* arguments of _calculate_delay range over 0..MaxClock
MaxDuration == 4   \* meeting durations range over 0..MaxDuration ticks
MaxUsers == 2      \* num_users ranges over 0..MaxUsers
MaxRel == 2        \* relative timestamps of the patterns: 0..MaxRel ticks
MaxShortLen == 2   \* entries of the logs of SpecLive and SpecLoad
MaxTemplate == 3   \* entries of a template file of SpecExtract
MaxStart == 1      \* start of a scenario's second meeting, in ticks

\* --------------------------------------------------------------- constants
ScaleDen == 2              \* delays are counted in 1/ScaleDen second
DefaultTimeScale == 2      \* TIME_SCALE = '1.0', times ScaleDen
PatternTicks == 1          \* 'duration_sec': 0.5, in ticks of 0.5 s
DefaultPreserveTiming == TRUE   \* PRESERVE_TIMING = 'true'

\* The synthesizer's times are counted in ticks of half a second, the nominal
\* duration_sec of a pattern.  chunk_duration_sec and
\* speaker_update_interval_sec take the values 0.5 s and 1.0 s.  A meeting's
\* duration_sec is its duration_minutes * 60 in ticks; SyntheticMeeting does
\* not check that duration_minutes is a whole number, and the durations here
\* are those of meetings of a few ticks (duration_minutes = k / 120).
ChunkDurations == {1, 2}
UpdateIntervals == {1, 2, 3}

\* values of TIME_SCALE, times ScaleDen: -1.0, 0.0, 0.5, 1.0, 2.0
TimeScales == {0 - 2, 0, 1, 2, 4}

\* the uuid4 values drawn while synthetic.py is imported
DefaultUserId == "uuid-1"
DefaultConnectionId == "A"
DefaultMeetingId == "uuid-3"

Conns == {"A", "B"}
SpeakerConns == {"A"}

VARIABLES
    phase,            \* position of replay_calls in its run
    entries,          \* har_processor.parser.pages[0].entries
    all_calls,        \* the (timestamp, (kind, call)) list of replay_calls
    pos,              \* index in all_calls of the loop of replay_calls
    pc,               \* "next": between records; "sending": awaiting the Sender
    inflight,         \* positions whose send was issued and has not returned
    sent_chunks,      \* set of (connection_id, chunk_index) of replay_calls
    previous_time,    \* previous_time of replay_calls
    current_time,     \* current_time of the loop of replay_calls
    delay,            \* the delay computed for the record being dispatched
    dispatched,       \* history: the calls handed to the Sender, in order
    outcomes,         \* history: outcomes[k] is TRUE iff dispatched[k] succeeded
    artifact,         \* output_audio/<connection_id>.webm, as the list of the
                      \* calls whose bodies it holds (by position in the log;
                      \* 0 is what an earlier run has left in the file)
    write_failed,     \* history: the calls whose append to the file failed
    report,           \* the closing audit: connection -> "full" / "failed"
    missing_logged,   \* what _validate_audio_chunks logged as missing
    preserve_timing,  \* config.PRESERVE_TIMING
    time_scale,       \* config.TIME_SCALE * ScaleDen
    audio_speaker_patterns,  \* SyntheticDataGenerator.audio_speaker_patterns
    speaker_patterns, \* SyntheticDataGenerator.speaker_patterns, in key order
    meeting,          \* the SyntheticMeeting passed to generate_meeting
    gen_pc,           \* position of generate_meeting in its run
    users,            \* users of generate_meeting
    user_i,           \* index in users of the outer loop of generate_meeting
    slot_i,           \* i of the inner loop of generate_meeting
    clock,            \* current_time of generate_meeting
    chunk_index,      \* chunk_index of generate_meeting
    synthetic_calls,  \* synthetic_calls of generate_meeting
    generated,        \* history: the values the entries of synthetic_calls
                      \* were made from
    template,         \* the entries of the template file
    pending_meetings, \* scenario_config['meetings'] not yet generated
    har_entries,      \* har_data['log']['entries'] of generate_test_scenario
    outputs,          \* history: what generate_meeting returned, per meeting
    loads,            \* history: the loads finished so far, log and result
    pending           \* the logs that remain to be loaded after this one

replayVars == <<phase, entries, all_calls, pos, pc, inflight, sent_chunks,
                previous_time, current_time, delay, dispatched, outcomes,
                artifact, write_failed, report, missing_logged>>

configVars == <<preserve_timing, time_scale>>

genVars == <<audio_speaker_patterns, speaker_patterns, meeting, gen_pc, users,
             user_i, slot_i, clock, chunk_index, synthetic_calls, generated>>

builderVars == <<template, pending_meetings, har_entries, outputs>>

loadVars == <<loads, pending>>

vars == <<replayVars, configVars, genVars, loadVars, builderVars>>

\* ------------------------------------------------------------ log entries
\* An entry's form says which query parameters it has: an audio entry is "ok"
\* or "bad" (i, connection_id or meeting_id is absent, or i is no integer); a
\* speaker entry is "ok", "no_conn" (no connection_id) or "no_meeting" (no
\* meeting_id).
\*
\* The entries of a log are drawn from the reference audio entry (well
\* formed, connection "A", chunk 0, time 0, with a body) and the entries that
\* differ from it in one respect: in chunk index, in connection (with chunk 0
\* or 1), in timestamp, in having no body, or in form; and from the speaker
\* entries of either timestamp and the malformed speaker entries of time 0.
Times == {0, MaxTs}

Indices == {0, 1, MaxIdx}

AudioEntries ==
    {e \in [kind : {"audio"}, form : {"ok", "bad"}, ts : Times,
             conn : Conns, idx : Indices, body : BOOLEAN] :
        \/ e.form = "ok" /\ e.ts = 0 /\ e.body /\ (e.conn = "A" \/ e.idx <= 1)
        \/ e.form = "ok" /\ e.conn = "A" /\ e.idx = 0 /\ e.body
        \/ e.form = "ok" /\ e.conn = "A" /\ e.idx = 0 /\ e.ts = 0
        \/ e.conn = "A" /\ e.idx = 0 /\ e.ts = 0 /\ e.body}

SpeakerEntries ==
    {e \in [kind : {"speaker"}, form : {"ok", "no_conn", "no_meeting"},
             ts : Times, conn : SpeakerConns, idx : {0}, body : {TRUE}] :
        e.form = "ok" \/ e.ts = 0}

EntryDomain == AudioEntries \cup SpeakerEntries

Logs == UNION {[1..n -> EntryDomain] : n \in 0..MaxLen}

\* ------------------------------------------------------- pure functions
Max(a, b) == IF a >= b THEN a ELSE b

\* mutant: the negative delays are not clamped
CalculateDelayNoClamp(current, previous, preserve, scale) ==
    IF ~preserve THEN 0
    ELSE (current - previous) * scale

\* ApiReplay._calculate_delay
_calculate_delay(current, previous, preserve, scale) ==
    IF ~preserve THEN 0
    ELSE Max(0, (current - previous) * scale)

\* mutant: an unstable sort, equal timestamps come out in reverse order
RECURSIVE InsertByTimeUnstable(_, _)
InsertByTimeUnstable(s, c) ==
    IF s = <<>> THEN <<c>>
    ELSE IF s[Len(s)].ts < c.ts THEN Append(s, c)
    ELSE Append(InsertByTimeUnstable(SubSeq(s, 1, Len(s) - 1), c), s[Len(s)])

\* list.sort(key=lambda x: x[0]): a stable sort on the timestamp
RECURSIVE InsertByTime(_, _)
InsertByTime(s, c) ==
    IF s = <<>> THEN <<c>>
    ELSE IF s[Len(s)].ts <= c.ts THEN Append(s, c)
    ELSE Append(InsertByTime(SubSeq(s, 1, Len(s) - 1), c), s[Len(s)])

RECURSIVE SortByTime(_)
SortByTime(s) ==
    IF s = <<>> THEN <<>>
    ELSE InsertByTime(SortByTime(SubSeq(s, 1, Len(s) - 1)), s[Len(s)])

\* mutant: an audio entry that cannot be read is taken as it is
AudioNeverRaises(e) == FALSE

\* AudioCall.from_har_entry raises KeyError or ValueError
AudioRaises(e) == e.kind = "audio" /\ e.form = "bad"

\* the loop of replay_calls over the entries raises: nothing catches what
\* AudioCall.from_har_entry raises
LoadRaises(es) == \E n \in 1..Len(es) : AudioRaises(es[n])

\* a speaker entry is kept when it has a connection_id and
\* SpeakersCall.from_har_entry returns a call; without meeting_id it returns
\* None, call.timestamp raises and the entry is skipped with a warning
SpeakerKept(e) == e.kind = "speaker" /\ e.form = "ok"

\* the loop of replay_calls over the entries: one call per entry that is
\* kept, tagged with its kind; seq is the entry's position in the file
RECURSIVE CollectCalls(_, _)
CollectCalls(es, n) ==
    IF n = 0 THEN <<>>
    ELSE IF es[n].kind = "audio" \/ SpeakerKept(es[n])
         THEN Append(CollectCalls(es, n - 1),
                     [kind |-> es[n].kind, ts |-> es[n].ts,
                      conn |-> es[n].conn, idx |-> es[n].idx,
                      body |-> es[n].body, seq |-> n])
         ELSE CollectCalls(es, n - 1)

IsAudio(c) == c.kind = "audio"

\* audio_calls = [call for _, (type_, call) in all_calls if type_ == 'audio']
AudioCalls(calls) == SelectSeq(calls, IsAudio)

\* chunks_by_connection, as the set of its keys and the list of each key
ConnsOf(audio) == {audio[k].conn : k \in 1..Len(audio)}

ChunksOf(audio, c) ==
    LET OfConn(x) == x.conn = c IN SelectSeq(audio, OfConn)

IndicesOf(chunks) == {chunks[k].idx : k \in 1..Len(chunks)}

\* sorted_chunks[0].chunk_index
FirstChunkIndex(chunks) ==
    CHOOSE m \in IndicesOf(chunks) : \A j \in IndicesOf(chunks) : m <= j

\* expected_indices - actual_indices of _validate_audio_chunks
MissingIndices(audio, c) ==
    (0..(Len(ChunksOf(audio, c)) - 1)) \ IndicesOf(ChunksOf(audio, c))

\* mutant: only the connection of the first audio call is checked
ValidationFailsFirstConnOnly(audio) ==
    /\ audio # <<>>
    /\ FirstChunkIndex(ChunksOf(audio, audio[1].conn)) # 0

\* mutant: a gap in the indices is fatal too
ValidationFailsOnGap(audio) ==
    \E c \in ConnsOf(audio) :
        \/ FirstChunkIndex(ChunksOf(audio, c)) # 0
        \/ MissingIndices(audio, c) # {}

\* _validate_audio_chunks raises ValueError
ValidationFails(audio) ==
    \E c \in ConnsOf(audio) : FirstChunkIndex(ChunksOf(audio, c)) # 0

\* the connections are visited in the order of their first audio call; the
\* ones visited before the raise have had their missing indices logged
FirstPos(audio, c) ==
    CHOOSE k \in 1..Len(audio) :
        /\ audio[k].conn = c
        /\ \A j \in 1..(k - 1) : audio[j].conn # c

Visited(audio, c) ==
    \A d \in ConnsOf(audio) :
        FirstPos(audio, d) <= FirstPos(audio, c)
            => FirstChunkIndex(ChunksOf(audio, d)) = 0

\* mutant: the audit expects the indices the log holds
AuditMissingOfLogged(audio, sent, c) ==
    IndicesOf(ChunksOf(audio, c)) \ {p[2] : p \in {q \in sent : q[1] = c}}

\* expected_indices - sent_indices of the closing audit
AuditMissing(audio, sent, c) ==
    (0..(Len(ChunksOf(audio, c)) - 1)) \ {p[2] : p \in {q \in sent : q[1] = c}}

\* ------------------------------------------------------------------ Init
\* generate_meeting has not been called
BuilderIdle ==
    /\ template = <<>>
    /\ pending_meetings = <<>>
    /\ har_entries = <<>>
    /\ outputs = <<>>

GenIdle ==
    /\ BuilderIdle
    /\ generated = <<>>
    /\ audio_speaker_patterns = <<>>
    /\ speaker_patterns = <<>>
    /\ meeting = [meeting_id |-> DefaultMeetingId]
    /\ gen_pc = "idle"
    /\ users = <<>>
    /\ user_i = 0
    /\ slot_i = 0
    /\ clock = 0
    /\ chunk_index = 0
    /\ synthetic_calls = <<>>

\* one log is loaded, once
LoadIdle ==
    /\ loads = <<>>
    /\ pending = <<>>

\* replay_calls has not been called
ReplayIdle ==
    /\ all_calls = <<>>
    /\ pos = 1
    /\ pc = "next"
    /\ inflight = {}
    /\ sent_chunks = {}
    /\ delay = 0
    /\ dispatched = <<>>
    /\ outcomes = <<>>
    /\ artifact = [c \in Conns |-> <<0>>]
    /\ write_failed = {}
    /\ report = [c \in Conns |-> "none"]
    /\ missing_logged = [c \in Conns |-> {}]

Init ==
    /\ phase = "Idle"
    /\ entries \in Logs
    /\ previous_time = 0
    /\ current_time = 0
    /\ ReplayIdle
    /\ LoadIdle
    /\ preserve_timing = DefaultPreserveTiming
    /\ time_scale = DefaultTimeScale
    /\ GenIdle

\* --------------------------------------------------------------- actions
\* replay_calls is entered: load_har_file
LoadHarFile ==
    /\ phase = "Idle"
    /\ phase' = "Loading"
    /\ UNCHANGED <<entries, all_calls, pos, pc, inflight, sent_chunks,
                   previous_time, current_time, delay, dispatched, outcomes,
                   artifact, write_failed, report, missing_logged,
                   configVars, genVars, loadVars,
                   builderVars>>

\* mutant: the list of calls is kept from one load to the next
BuildCallsKeepsCalls ==
    /\ phase = "Loading"
    /\ IF LoadRaises(entries)
       THEN /\ phase' = "Failed"
            /\ all_calls' = <<>>
       ELSE LET calls == all_calls \o CollectCalls(entries, Len(entries)) IN
              IF calls = <<>>
              THEN /\ phase' = "NoCalls"
                   /\ all_calls' = calls
              ELSE /\ phase' = "Validating"
                   /\ all_calls' = SortByTime(calls)
    /\ UNCHANGED <<entries, pos, pc, inflight, sent_chunks, previous_time,
                   current_time, delay, dispatched, outcomes, artifact,
                   write_failed, report, missing_logged, configVars, genVars, loadVars,
                   builderVars>>

\* mutant: the webm files are removed before the empty list returns
BuildCallsCleansFirst ==
    /\ phase = "Loading"
    /\ IF LoadRaises(entries)
       THEN /\ phase' = "Failed"
            /\ all_calls' = <<>>
            /\ UNCHANGED artifact
       ELSE LET calls == CollectCalls(entries, Len(entries)) IN
              /\ artifact' = [c \in Conns |-> <<>>]
              /\ IF calls = <<>>
                 THEN /\ phase' = "NoCalls"
                      /\ all_calls' = calls
                 ELSE /\ phase' = "Validating"
                      /\ all_calls' = SortByTime(calls)
    /\ UNCHANGED <<entries, pos, pc, inflight, sent_chunks, previous_time,
                   current_time, delay, dispatched, outcomes,
                   write_failed, report, missing_logged, configVars, genVars, loadVars,
                   builderVars>>

\* the calls are collected, which may raise; an empty list returns, otherwise
\* the list is sorted
BuildCalls ==
    /\ phase = "Loading"
    /\ IF LoadRaises(entries)
       THEN /\ phase' = "Failed"
            /\ all_calls' = <<>>
       ELSE LET calls == CollectCalls(entries, Len(entries)) IN
              IF calls = <<>>
              THEN /\ phase' = "NoCalls"
                   /\ all_calls' = calls
              ELSE /\ phase' = "Validating"
                   /\ all_calls' = SortByTime(calls)
    /\ UNCHANGED <<entries, pos, pc, inflight, sent_chunks, previous_time,
                   current_time, delay, dispatched, outcomes, artifact,
                   write_failed, report, missing_logged, configVars, genVars, loadVars,
                   builderVars>>

\* mutant: the webm files are removed before the validation
ValidateChunksCleansFirst ==
    /\ phase = "Validating"
    /\ artifact' = [c \in Conns |-> <<>>]
    /\ LET audio == AudioCalls(all_calls) IN
         /\ missing_logged' =
              [c \in Conns |-> IF c \in ConnsOf(audio) /\ Visited(audio, c)
                               THEN MissingIndices(audio, c) ELSE {}]
         /\ IF ValidationFails(audio)
            THEN /\ phase' = "Aborted"
                 /\ UNCHANGED <<sent_chunks, previous_time>>
            ELSE /\ phase' = "Replaying"
                 /\ sent_chunks' = {}
                 /\ previous_time' = all_calls[1].ts
    /\ UNCHANGED <<entries, all_calls, pos, pc, inflight, current_time, delay,
                   dispatched, outcomes, write_failed, report, configVars, genVars, loadVars,
                   builderVars>>

\* _validate_audio_chunks; on success the webm files are removed and the loop
\* is set up
ValidateChunks ==
    /\ phase = "Validating"
    /\ LET audio == AudioCalls(all_calls) IN
         /\ missing_logged' =
              [c \in Conns |-> IF c \in ConnsOf(audio) /\ Visited(audio, c)
                               THEN MissingIndices(audio, c) ELSE {}]
         /\ IF ValidationFails(audio)
            THEN /\ phase' = "Aborted"
                 /\ UNCHANGED <<sent_chunks, artifact, previous_time>>
            ELSE /\ phase' = "Replaying"
                 /\ sent_chunks' = {}
                 /\ artifact' = [c \in Conns |-> <<>>]
                 /\ previous_time' = all_calls[1].ts
    /\ UNCHANGED <<entries, all_calls, pos, pc, inflight, current_time, delay,
                   dispatched, outcomes, write_failed, report, configVars, genVars, loadVars,
                   builderVars>>

\* send_speakers raises on the call before any request is made: the call
\* comes from a written log and its body is not of the shape the Sender
\* asks for (the calls of the replay logs above have bodies that are)
SenderRejects(call) == "accepted" \in DOMAIN call /\ ~call.accepted

\* the failures the environment has produced so far in this run
Failures ==
    Cardinality({k \in 1..Len(outcomes) :
                    ~outcomes[k] /\ ~SenderRejects(dispatched[k])})
        + Cardinality(write_failed)

\* mutant: every chunk goes to the file of the first connection
WriteChunkToOneFile(call, writeOk) ==
    IF writeOk
    THEN [artifact EXCEPT !["A"] = Append(@, call.seq)]
    ELSE artifact

\* _write_chunk_to_file: the body is appended to the file of the call's
\* connection; when the append fails the error is logged and the file is as
\* it was
_write_chunk_to_file(call, writeOk) ==
    IF writeOk
    THEN [artifact EXCEPT ![call.conn] = Append(@, call.seq)]
    ELSE artifact

\* mutant: the send is issued without being awaited, the loop goes on at once
DispatchNoAwait ==
    /\ phase = "Replaying"
    /\ pc = "next"
    /\ pos <= Len(all_calls)
    /\ LET call == all_calls[pos] IN
         /\ current_time' = call.ts
         /\ delay' = _calculate_delay(call.ts, previous_time,
                                      preserve_timing, time_scale)
         /\ \E writeOk \in BOOLEAN :
              /\ (IsAudio(call) /\ call.body) \/ writeOk
              /\ writeOk \/ Failures < MaxFail
              /\ artifact' = IF IsAudio(call) /\ call.body
                             THEN _write_chunk_to_file(call, writeOk)
                             ELSE artifact
              /\ write_failed' = IF writeOk THEN write_failed
                                 ELSE write_failed \cup {call.seq}
         /\ inflight' = inflight \cup {pos}
         /\ dispatched' = Append(dispatched, call)
         /\ outcomes' = Append(outcomes, TRUE)
         /\ previous_time' = call.ts
    /\ pos' = pos + 1
    /\ UNCHANGED <<phase, entries, all_calls, pc, sent_chunks, report,
                   missing_logged, configVars, genVars, loadVars,
                   builderVars>>

\* one iteration of the loop up to the await of the Sender: the delay, the
\* append to the webm file (which may fail and is then only logged), the send
Dispatch ==
    /\ phase = "Replaying"
    /\ pc = "next"
    /\ pos <= Len(all_calls)
    /\ LET call == all_calls[pos] IN
         /\ current_time' = call.ts
         /\ delay' = _calculate_delay(call.ts, previous_time,
                                      preserve_timing, time_scale)
         /\ \E writeOk \in BOOLEAN :
              /\ (IsAudio(call) /\ call.body) \/ writeOk
              /\ writeOk \/ Failures < MaxFail
              /\ artifact' = IF IsAudio(call) /\ call.body
                             THEN _write_chunk_to_file(call, writeOk)
                             ELSE artifact
              /\ write_failed' = IF writeOk THEN write_failed
                                 ELSE write_failed \cup {call.seq}
         /\ inflight' = inflight \cup {pos}
         /\ dispatched' = Append(dispatched, call)
    /\ pc' = "sending"
    /\ UNCHANGED <<phase, entries, all_calls, pos, sent_chunks, previous_time,
                   outcomes, report, missing_logged, configVars, genVars, loadVars,
                   builderVars>>

\* what SendReturns does to the loop state, for the outcome ok of the send
Returned(ok, nextPos, nextPhase, recordSent) ==
    LET call == all_calls[pos] IN
      /\ SenderRejects(call) => ~ok
      /\ ok \/ SenderRejects(call) \/ Failures < MaxFail
      /\ outcomes' = Append(outcomes, ok)
      /\ sent_chunks' = IF recordSent /\ IsAudio(call)
                        THEN sent_chunks \cup {<<call.conn, call.idx>>}
                        ELSE sent_chunks
      /\ previous_time' = IF ok THEN call.ts ELSE previous_time
      /\ inflight' = inflight \ {pos}
      /\ pos' = nextPos
      /\ phase' = nextPhase
      /\ pc' = "next"
      /\ UNCHANGED <<entries, all_calls, current_time, delay, dispatched,
                     artifact, write_failed, report, missing_logged,
                     configVars, genVars, loadVars,
                   builderVars>>

\* mutant: a failed send leaves the loop (break instead of continue)
SendReturnsBreak ==
    /\ phase = "Replaying"
    /\ pc = "sending"
    /\ \E ok \in BOOLEAN :
         Returned(ok, IF ok THEN pos + 1 ELSE Len(all_calls) + 1, phase, ok)

\* mutant: a failed send aborts the run
SendReturnsAbort ==
    /\ phase = "Replaying"
    /\ pc = "sending"
    /\ \E ok \in BOOLEAN :
         Returned(ok, pos + 1, IF ok THEN phase ELSE "Aborted", ok)

\* mutant: the chunk is recorded as sent before the send is known to succeed
SendReturnsRecordFirst ==
    /\ phase = "Replaying"
    /\ pc = "sending"
    /\ \E ok \in BOOLEAN : Returned(ok, pos + 1, phase, TRUE)

\* the Sender returns or raises; an exception is logged and the loop continues
\* with the next record, previous_time being updated only after a success
SendReturns ==
    /\ phase = "Replaying"
    /\ pc = "sending"
    /\ \E ok \in BOOLEAN : Returned(ok, pos + 1, phase, ok)

\* mutant: the audit is run only when no send has failed
AuditAfterCleanRun ==
    /\ \A k \in 1..Len(outcomes) : outcomes[k]
    /\ phase = "Replaying"
    /\ pc = "next"
    /\ pos > Len(all_calls)
    /\ LET audio == AudioCalls(all_calls) IN
         report' = [c \in Conns |->
                      IF c \notin ConnsOf(audio) THEN "none"
                      ELSE IF AuditMissing(audio, sent_chunks, c) # {}
                           THEN "failed" ELSE "full"]
    /\ phase' = "Completed"
    /\ UNCHANGED <<entries, all_calls, pos, pc, inflight, sent_chunks,
                   previous_time, current_time, delay, dispatched, outcomes,
                   artifact, write_failed, missing_logged, configVars, genVars, loadVars,
                   builderVars>>

\* the closing audit
Audit ==
    /\ phase = "Replaying"
    /\ pc = "next"
    /\ pos > Len(all_calls)
    /\ LET audio == AudioCalls(all_calls) IN
         report' = [c \in Conns |->
                      IF c \notin ConnsOf(audio) THEN "none"
                      ELSE IF AuditMissing(audio, sent_chunks, c) # {}
                           THEN "failed" ELSE "full"]
    /\ phase' = "Completed"
    /\ UNCHANGED <<entries, all_calls, pos, pc, inflight, sent_chunks,
                   previous_time, current_time, delay, dispatched, outcomes,
                   artifact, write_failed, missing_logged, configVars, genVars, loadVars,
                   builderVars>>

Next ==
    \/ LoadHarFile
    \/ BuildCalls
    \/ ValidateChunks
    \/ Dispatch
    \/ SendReturns
    \/ Audit

Spec == Init /\ [][Next]_vars

\* The replay of short logs with the progress of the loop assumed: the code
\* between two awaits runs to the next await, the sleep of a finite delay
\* ends, and every call of the Sender returns or raises.
ShortLogs == UNION {[1..n -> EntryDomain] : n \in 0..MaxShortLen}

InitLive ==
    /\ Init
    /\ entries \in ShortLogs

SpecLive ==
    /\ InitLive
    /\ [][Next]_vars
    /\ WF_vars(Dispatch)
    /\ WF_vars(SendReturns)
    /\ WF_vars(Audit)

\* ------------------------------------------------ loading more than once
\* The call sequence is built from a log, then from another log, then from
\* the first log again.
OtherLogs == UNION {[1..n -> EntryDomain] : n \in 0..1}

InitLoad ==
    /\ phase = "Idle"
    /\ entries \in ShortLogs
    /\ \E other \in OtherLogs : pending = <<other, entries>>
    /\ loads = <<>>
    /\ previous_time = 0
    /\ current_time = 0
    /\ ReplayIdle
    /\ preserve_timing = DefaultPreserveTiming
    /\ time_scale = DefaultTimeScale
    /\ GenIdle

\* the load has ended (with a sequence to validate, without calls, or with an
\* exception); its result is noted and the next log is taken up
LoadNext ==
    /\ phase \in {"Validating", "NoCalls", "Failed"}
    /\ loads' = Append(loads, [log |-> entries, calls |-> all_calls,
                               result |-> phase])
    /\ IF pending = <<>>
       THEN /\ phase' = "Loaded"
            /\ UNCHANGED <<entries, pending>>
       ELSE /\ phase' = "Idle"
            /\ entries' = Head(pending)
            /\ pending' = Tail(pending)
    /\ UNCHANGED <<all_calls, pos, pc, inflight, sent_chunks, previous_time,
                   current_time, delay, dispatched, outcomes, artifact,
                   write_failed, report, missing_logged, configVars, genVars,
                   builderVars>>

NextLoad ==
    \/ LoadHarFile
    \/ BuildCalls
    \/ LoadNext

SpecLoad == InitLoad /\ [][NextLoad]_vars

\* ----------------------------------------- _calculate_delay on its own
InitDelay ==
    /\ phase = "DelayCall"
    /\ entries = <<>>
    /\ previous_time \in 0..MaxClock
    /\ current_time \in 0..MaxClock
    /\ ReplayIdle
    /\ LoadIdle
    /\ preserve_timing \in BOOLEAN
    /\ time_scale \in TimeScales
    /\ GenIdle

\* delay = self._calculate_delay(current_time, previous_time)
CalculateDelay ==
    /\ phase = "DelayCall"
    /\ delay' = _calculate_delay(current_time, previous_time,
                                 preserve_timing, time_scale)
    /\ phase' = "DelayReturned"
    /\ UNCHANGED <<entries, all_calls, pos, pc, inflight, sent_chunks,
                   previous_time, current_time, dispatched, outcomes,
                   artifact, write_failed, report, missing_logged,
                   configVars, genVars, loadVars,
                   builderVars>>

NextDelay == CalculateDelay

SpecDelay == InitDelay /\ [][NextDelay]_vars

\* ------------------------------------------------- the meeting synthesizer
Min(a, b) == IF a <= b THEN a ELSE b

Abs(a) == IF a >= 0 THEN a ELSE 0 - a

\* SyntheticUser(): the defaults of the dataclass fields are the values that
\* str(uuid.uuid4()) had when the class body was executed
SyntheticUser ==
    [user_id |-> DefaultUserId, connection_id |-> DefaultConnectionId]

\* ------------------------------------------------- the template file
\* a meta bit string, character by character
MetaOn == <<"1", "1", "1", "1">>

MetaHalf == <<"1", "1", "0", "0">>

\* a Python str and a Python bytes, by their code points and byte values
StrOf(points) == [type |-> "str", data |-> points]

BytesOf(values) == [type |-> "bytes", data |-> values]

\* the entries of a template file: url says which of 'audio' and 'speakers'
\* the request URL contains, content what response.content.text holds: "ok" a
\* JSON text of the expected shape (an object with audio_chunk, a list of
\* [name, meta] pairs), "unparsed" a text that is not, "none" no text at all
TemplateEntries ==
    {[url |-> "audio", content |-> c, chunk |-> StrOf(<<65>>),
      speakers |-> <<>>] : c \in {"ok", "unparsed", "none"}}
    \cup
    {[url |-> "speakers", content |-> "ok", chunk |-> StrOf(<<>>),
      speakers |-> d] :
        d \in {<<<<"T1", MetaOn>>>>, <<<<"T1", MetaHalf>>>>,
               <<<<"T1", MetaOn>>, <<"T2", MetaOn>>>>}}
    \cup
    {[url |-> "speakers", content |-> "unparsed", chunk |-> StrOf(<<>>),
      speakers |-> <<>>],
     [url |-> "other", content |-> "ok", chunk |-> StrOf(<<>>),
      speakers |-> <<>>]}

Templates == UNION {[1..n -> TemplateEntries] : n \in 0..MaxTemplate}

\* is_speaking: more than half of the meta bits are '1'
MetaIsSpeaking(meta_bits) ==
    2 * Cardinality({k \in 1..Len(meta_bits) : meta_bits[k] = "1"})
        > Max(Len(meta_bits), 1)

\* the state of the scan: the stored patterns (speaker_data names a dict), the
\* 'speakers' dicts created so far, current_pattern (<<>> is None),
\* relative_time in ticks, and self.speaker_patterns in insertion order
ScanStart ==
    [patterns |-> <<>>, dicts |-> <<>>, current_pattern |-> <<>>,
     relative_time |-> 0, speaker_patterns |-> <<>>]

\* mutant: the current pattern is stored whether or not it has speakers
SavePatternWithoutSpeakers(st) ==
    IF st.current_pattern # <<>>
    THEN [st EXCEPT !.patterns =
            Append(@, [audio_chunk |-> st.current_pattern[1].audio_chunk,
                       chunk_index |-> st.current_pattern[1].chunk_index,
                       speaker_data |-> st.current_pattern[1].speakers,
                       relative_timestamp |->
                           st.current_pattern[1].relative_timestamp,
                       duration_sec |-> st.current_pattern[1].duration_sec])]
    ELSE st

\* a pattern is stored when there is a current one and it has speakers; the
\* stored pattern shares the speakers dict with current_pattern
SavePattern(st) ==
    IF st.current_pattern # <<>>
         /\ st.dicts[st.current_pattern[1].speakers] # <<>>
    THEN [st EXCEPT !.patterns =
            Append(@, [audio_chunk |-> st.current_pattern[1].audio_chunk,
                       chunk_index |-> st.current_pattern[1].chunk_index,
                       speaker_data |-> st.current_pattern[1].speakers,
                       relative_timestamp |->
                           st.current_pattern[1].relative_timestamp,
                       duration_sec |-> st.current_pattern[1].duration_sec])]
    ELSE st

\* mutant: the pattern still open at the end of the scan is not stored
SaveLastPatternSkipped(st) == st

\* the save after the loop
SaveLastPattern(st) == SavePattern(st)

\* dict[speaker_name] = {...}: a present key keeps its place
PutSpeaker(dict, speaker_name, meta_bits) ==
    LET item == [speaker_name |-> speaker_name, meta |-> meta_bits,
                 is_speaking |-> TRUE]
    IN IF \E k \in 1..Len(dict) : dict[k].speaker_name = speaker_name
       THEN [k \in 1..Len(dict) |->
                IF dict[k].speaker_name = speaker_name THEN item ELSE dict[k]]
       ELSE Append(dict, item)

\* self.speaker_patterns[speaker_name].append(period)
AddPeriod(patterns, speaker_name, period) ==
    IF \E k \in 1..Len(patterns) : patterns[k].name = speaker_name
    THEN [k \in 1..Len(patterns) |->
            IF patterns[k].name = speaker_name
            THEN [patterns[k] EXCEPT !.periods = Append(@, period)]
            ELSE patterns[k]]
    ELSE Append(patterns, [name |-> speaker_name, periods |-> <<period>>])

\* the loop over the [name, meta] pairs of one speaker entry
RECURSIVE AddSpeakers(_, _)
AddSpeakers(st, speaker_data) ==
    IF speaker_data = <<>> THEN st
    ELSE LET s1 == AddSpeakers(st, SubSeq(speaker_data, 1,
                                          Len(speaker_data) - 1))
             speaker_entry == speaker_data[Len(speaker_data)]
             id == s1.current_pattern[1].speakers
         IN IF MetaIsSpeaking(speaker_entry[2])
            THEN [s1 EXCEPT
                    !.dicts[id] = PutSpeaker(@, speaker_entry[1],
                                             speaker_entry[2]),
                    !.speaker_patterns =
                        AddPeriod(@, speaker_entry[1],
                                  <<s1.relative_time,
                                    s1.relative_time
                                      + s1.current_pattern[1].duration_sec>>)]
            ELSE s1

\* one pass of the loop over the entries
ScanEntry(st, entry) ==
    IF entry.url = "other" \/ entry.content = "none" THEN st
    ELSE IF entry.url = "audio"
    THEN LET s1 == SavePattern(st)
         IN IF entry.content = "ok"
            THEN [s1 EXCEPT
                    !.dicts = Append(@, <<>>),
                    !.current_pattern =
                        <<[audio_chunk |-> entry.chunk,
                           chunk_index |-> 0,
                           relative_timestamp |-> s1.relative_time,
                           duration_sec |-> PatternTicks,
                           speakers |-> Len(s1.dicts) + 1]>>,
                    !.relative_time = @ + PatternTicks]
            ELSE s1
    ELSE IF st.current_pattern # <<>> /\ entry.content = "ok"
    THEN AddSpeakers(st, entry.speakers)
    ELSE st

RECURSIVE Scan(_)
Scan(t) ==
    IF t = <<>> THEN ScanStart
    ELSE ScanEntry(Scan(SubSeq(t, 1, Len(t) - 1)), t[Len(t)])

\* _load_template_data: what it leaves in the generator, and whether it
\* raises the ValueError for no patterns
_load_template_data(t) ==
    LET st == SaveLastPattern(Scan(t))
    IN [raised |-> st.patterns = <<>>,
        audio_speaker_patterns |->
            [k \in 1..Len(st.patterns) |->
                [st.patterns[k] EXCEPT !.speaker_data = st.dicts[@]]],
        speaker_patterns |-> st.speaker_patterns]

\* SyntheticDataGenerator(template_file)
LoadTemplateData ==
    /\ gen_pc = "construct"
    /\ LET loaded == _load_template_data(template)
       IN /\ gen_pc' = IF loaded.raised THEN "no_patterns" ELSE "constructed"
          /\ audio_speaker_patterns' = loaded.audio_speaker_patterns
          /\ speaker_patterns' = loaded.speaker_patterns
    /\ UNCHANGED <<replayVars, loadVars, configVars, builderVars, meeting,
                   users, user_i, slot_i, clock, chunk_index, synthetic_calls,
                   generated>>

\* a template whose audio entries at the relative times rels are followed by
\* a speaker entry with the active speaker T1, the last of several ones with
\* a second active speaker T2
RECURSIVE TemplateOf(_, _)
TemplateOf(rels, r) ==
    IF r > MaxRel THEN <<>>
    ELSE <<[url |-> "audio", content |-> "ok", chunk |-> StrOf(<<65 + r>>),
            speakers |-> <<>>]>>
         \o (IF \E k \in 1..Len(rels) : rels[k] = r
             THEN <<[url |-> "speakers", content |-> "ok",
                     chunk |-> StrOf(<<>>),
                     speakers |->
                         IF Len(rels) >= 2 /\ rels[Len(rels)] = r
                         THEN <<<<"T1", MetaOn>>, <<"T2", MetaOn>>>>
                         ELSE <<<<"T1", MetaOn>>>>]>>
             ELSE <<>>)
         \o TemplateOf(rels, r + 1)

RelSeqs ==
    {r \in UNION {[1..n -> 0..MaxRel] : n \in 1..(MaxRel + 1)} :
        \A k \in 1..(Len(r) - 1) : r[k] < r[k + 1]}

\* mutant: the periods that start at or after total are kept too
RECURSIVE ShiftClipAll(_, _, _)
ShiftClipAll(periods, offset, total) ==
    IF periods = <<>> THEN <<>>
    ELSE Append(ShiftClipAll(SubSeq(periods, 1, Len(periods) - 1),
                             offset, total),
                <<offset + periods[Len(periods)][1],
                  Min(total, offset + periods[Len(periods)][2])>>)

\* the periods of one repetition: shifted by offset, kept when they start
\* before total, clipped at total
RECURSIVE ShiftClip(_, _, _)
ShiftClip(periods, offset, total) ==
    IF periods = <<>> THEN <<>>
    ELSE LET front == ShiftClip(SubSeq(periods, 1, Len(periods) - 1),
                                offset, total)
             last == periods[Len(periods)]
         IN IF offset + last[1] < total
            THEN Append(front, <<offset + last[1], Min(total, offset + last[2])>>)
            ELSE front

RECURSIVE Tile(_, _, _, _, _)
Tile(periods, pattern_duration, total, i, num_repeats) ==
    IF i >= num_repeats THEN <<>>
    ELSE ShiftClip(periods, i * pattern_duration, total)
           \o Tile(periods, pattern_duration, total, i + 1, num_repeats)

MaxEnd(periods) ==
    CHOOSE m \in {periods[k][2] : k \in 1..Len(periods)} :
        \A k \in 1..Len(periods) : periods[k][2] <= m

SpeakerNames == <<"Speaker_1", "Speaker_2", "Speaker_3">>

\* _create_synthetic_speakers
RECURSIVE _create_synthetic_speakers(_, _)
_create_synthetic_speakers(templates, total_duration_sec) ==
    IF templates = <<>> THEN <<>>
    ELSE LET speakers == _create_synthetic_speakers(
                             SubSeq(templates, 1, Len(templates) - 1),
                             total_duration_sec)
             speaking_periods == templates[Len(templates)].periods
             pattern_duration == MaxEnd(speaking_periods)
             num_repeats == (total_duration_sec \div pattern_duration) + 1
         IN Append(speakers,
                   [name |-> SpeakerNames[Len(speakers) + 1],
                    speaking_patterns |->
                        Tile(speaking_periods, pattern_duration,
                             total_duration_sec, 0, num_repeats)])

\* mutant: the pattern of slot i is always patterns[i % len(patterns)]
SelectPatternRoundRobin(patterns, i, chunk_duration_sec) ==
    patterns[(i % Len(patterns)) + 1]

\* the pattern of slot i: the first one less than a chunk away from the
\* slot's relative time, else patterns[i % len(patterns)]
SelectPattern(patterns, i, chunk_duration_sec) ==
    LET relative_time == i * chunk_duration_sec
        near == {k \in 1..Len(patterns) :
                    Abs(patterns[k].relative_timestamp - relative_time)
                        < chunk_duration_sec}
    IN IF near # {}
       THEN patterns[CHOOSE k \in near : \A j \in near : k <= j]
       ELSE patterns[(i % Len(patterns)) + 1]

\* mutant: a speaker is no longer speaking at the end of a period
IsSpeakingBeforeEnd(speaker, relative_time) ==
    \E k \in 1..Len(speaker.speaking_patterns) :
        /\ speaker.speaking_patterns[k][1] <= relative_time
        /\ relative_time < speaker.speaking_patterns[k][2]

IsSpeaking(speaker, relative_time) ==
    \E k \in 1..Len(speaker.speaking_patterns) :
        /\ speaker.speaking_patterns[k][1] <= relative_time
        /\ relative_time <= speaker.speaking_patterns[k][2]

\* ------------------------------------------- the entries of a HAR log
\* str(n): the decimal digits of n
RECURSIVE Str(_)
Str(n) == IF n < 10 THEN <<n>> ELSE Append(Str(n \div 10), n % 10)

\* int(s) of a string of decimal digits
RECURSIVE ParseInt(_)
ParseInt(digits) ==
    IF Len(digits) = 1 THEN digits[1]
    ELSE 10 * ParseInt(SubSeq(digits, 1, Len(digits) - 1)) + digits[Len(digits)]

\* bytes.decode('latin1'): the code point of a character is the byte's value
Latin1Decode(chunk) == StrOf(chunk.data)

\* json.dumps(d): the text of an object, ASCII only
JsonDumps(d) == [type |-> "str", json |-> d]

\* str.encode('latin1'), for code points up to 255 only
Latin1Encodable(text) ==
    "data" \in DOMAIN text =>
        \A k \in 1..Len(text.data) : text.data[k] <= 255

Latin1Encode(text) == [text EXCEPT !.type = "bytes"]

\* datetime.isoformat() of a naive datetime, counted in ticks from the
\* meeting's start: a text without zone suffix
IsoFormat(t) == [ticks |-> t, suffix |-> ""]

\* datetime.fromisoformat(s.replace('Z', '+00:00')): aware when s ends in Z
FromIsoFormat(s) == [ticks |-> s.ticks, aware |-> s.suffix = "Z"]

\* {q['name']: q['value'] for q in queryString}: the last value wins
QueryHas(query, name) == \E k \in 1..Len(query) : query[k].name = name

QueryGet(query, name) ==
    query[CHOOSE k \in 1..Len(query) :
            /\ query[k].name = name
            /\ \A j \in (k + 1)..Len(query) : query[j].name # name].value

\* the queryString of an audio entry
AudioQuery(index, user) ==
    <<[name |-> "i", value |-> Str(index)],
      [name |-> "connection_id", value |-> user.connection_id],
      [name |-> "meeting_id", value |-> meeting.meeting_id]>>

\* mutant: speaker entries are written without the connection_id
SpeakerQueryNoConnection(user) ==
    <<[name |-> "meeting_id", value |-> meeting.meeting_id]>>

\* the queryString of a speaker entry
SpeakerQuery(user) ==
    <<[name |-> "connection_id", value |-> user.connection_id],
      [name |-> "meeting_id", value |-> meeting.meeting_id]>>

\* the speakers of the config that are speaking at relative_time
RECURSIVE ActiveSpeakers(_, _)
ActiveSpeakers(speakers, relative_time) ==
    IF speakers = <<>> THEN <<>>
    ELSE LET front == ActiveSpeakers(SubSeq(speakers, 1, Len(speakers) - 1),
                                     relative_time)
         IN IF IsSpeaking(speakers[Len(speakers)], relative_time)
            THEN Append(front, speakers[Len(speakers)])
            ELSE front

\* the template's first speaker item, copied and updated
SpeakerData(speaker, pattern, user, now) ==
    [speaker_name |-> speaker.name,
     meta |-> pattern.speaker_data[1].meta,
     is_speaking |-> pattern.speaker_data[1].is_speaking,
     user_id |-> user.user_id,
     meeting_id |-> meeting.meeting_id,
     user_timestamp |-> IsoFormat(now)]

\* the speaker entries of one slot, one for each speaker active at the time
SpeakerCalls(speakers, pattern, user, relative_time, now) ==
    LET active == ActiveSpeakers(speakers, relative_time)
    IN [k \in 1..Len(active) |->
          [url |-> "/extension/speakers",
           queryString |-> SpeakerQuery(user),
           text |-> JsonDumps(SpeakerData(active[k], pattern, user, now)),
           startedDateTime |-> IsoFormat(now)]]

\* the values the speaker entries of one slot are made from
SpeakerValues(speakers, pattern, user, relative_time, now) ==
    LET active == ActiveSpeakers(speakers, relative_time)
    IN [k \in 1..Len(active) |->
          [kind |-> "speaker", ts |-> now, conn |-> user.connection_id,
           idx |-> 0, meeting |-> meeting.meeting_id,
           body |-> SpeakerData(active[k], pattern, user, now)]]

\* ApiCall.from_har_entry and its two subclasses' from_har_entry: the call
\* made from an entry; kind "raised" when a query parameter of an audio entry
\* is missing, kind "none" for a speaker entry without meeting_id; the body
\* is None (<<>>) when the text cannot be encoded
from_har_entry(e) ==
    LET query == e.queryString
        timestamp == FromIsoFormat(e.startedDateTime)
        body == IF Latin1Encodable(e.text)
                THEN <<Latin1Encode(e.text)>>
                ELSE <<>>
    IN IF e.url = "/extension/audio"
       THEN IF /\ QueryHas(query, "i")
               /\ QueryHas(query, "connection_id")
               /\ QueryHas(query, "meeting_id")
            THEN [kind |-> "audio", ts |-> timestamp.ticks,
                  aware |-> timestamp.aware,
                  conn |-> QueryGet(query, "connection_id"),
                  idx |-> ParseInt(QueryGet(query, "i")),
                  meeting |-> QueryGet(query, "meeting_id"),
                  body |-> body]
            ELSE [kind |-> "raised"]
       ELSE IF QueryHas(query, "meeting_id")
            THEN [kind |-> "speaker", ts |-> timestamp.ticks,
                  aware |-> timestamp.aware,
                  conn |-> IF QueryHas(query, "connection_id")
                           THEN QueryGet(query, "connection_id")
                           ELSE "None",
                  idx |-> 0,
                  meeting |-> QueryGet(query, "meeting_id"),
                  body |-> body]
            ELSE [kind |-> "none"]

\* json.dumps of a list: the text of an array; the field of a text says what
\* json.loads makes of it, json an object (dict), list an array, data no
\* JSON text at all
JsonDumpsList(l) == [type |-> "str", list |-> l]

\* Client.send_speakers up to the request: the body is parsed and must be a
\* non-empty list of [name, meta] lists of two strings each, otherwise
\* JSONDecodeError or ValueError is raised and nothing is transmitted (the
\* strings of the model are names and meta texts, so the two elements of an
\* entry are strings)
SendSpeakersAccepts(body) ==
    /\ body # <<>>
    /\ "list" \in DOMAIN body[1]
    /\ body[1].list # <<>>
    /\ \A k \in 1..Len(body[1].list) : Len(body[1].list[k]) = 2

\* replay_calls, the loop over the entries: an entry becomes a call to replay
\* when it is an audio entry that from_har_entry accepts, or a speaker entry
\* that has a connection_id and that from_har_entry makes a call of
KeptAtLoad(e) ==
    IF e.url = "/extension/audio"
    THEN from_har_entry(e).kind = "audio"
    ELSE /\ QueryHas(e.queryString, "connection_id")
         /\ from_har_entry(e).kind = "speaker"

\* the calls that the entries of a log become
RECURSIVE LoadedCalls(_)
LoadedCalls(har) ==
    IF har = <<>> THEN <<>>
    ELSE LET front == LoadedCalls(SubSeq(har, 1, Len(har) - 1))
         IN IF KeptAtLoad(har[Len(har)])
            THEN Append(front, from_har_entry(har[Len(har)]))
            ELSE front

\* patterns whose audio_chunk is of the type the class declares, bytes
AsDeclared(patterns) ==
    [k \in 1..Len(patterns) |->
        [patterns[k] EXCEPT !.audio_chunk = BytesOf(@.data)]]

Meetings ==
    [meeting_id : {DefaultMeetingId}, duration_sec : 0..MaxDuration,
     num_users : 0..MaxUsers, speakers : {<<>>},
     chunk_duration_sec : ChunkDurations,
     speaker_update_interval_sec : UpdateIntervals, start_time : {0}]

InitGen ==
    /\ phase = "Idle"
    /\ entries = <<>>
    /\ previous_time = 0
    /\ current_time = 0
    /\ ReplayIdle
    /\ LoadIdle
    /\ preserve_timing = DefaultPreserveTiming
    /\ time_scale = DefaultTimeScale
    /\ pending_meetings = <<>>
    /\ har_entries = <<>>
    /\ outputs = <<>>
    /\ generated = <<>>
    /\ \E rels \in RelSeqs :
          LET loaded == _load_template_data(TemplateOf(rels, 0))
          IN /\ template = TemplateOf(rels, 0)
             /\ audio_speaker_patterns \in
                    {loaded.audio_speaker_patterns,
                     AsDeclared(loaded.audio_speaker_patterns)}
             /\ speaker_patterns = loaded.speaker_patterns
    /\ meeting \in Meetings
    /\ gen_pc = "start"
    /\ users = <<>>
    /\ user_i = 0
    /\ slot_i = 0
    /\ clock = 0
    /\ chunk_index = 0
    /\ synthetic_calls = <<>>

\* mutant: the remainder chunks go to the users too
ChunksPerUserRoundedUp ==
    ((meeting.duration_sec \div meeting.chunk_duration_sec)
        + meeting.num_users - 1) \div meeting.num_users

chunks_per_user ==
    (meeting.duration_sec \div meeting.chunk_duration_sec)
        \div meeting.num_users

\* mutant: the clock goes back to start_time when a user's chunks are done
ClockRestartsPerUser ==
    IF slot_i + 1 < chunks_per_user
    THEN clock + meeting.chunk_duration_sec
    ELSE meeting.start_time

\* current_time += timedelta(seconds=config.chunk_duration_sec)
AdvancedClock == clock + meeting.chunk_duration_sec

\* generate_meeting up to its loops: the users, the speakers (stored in the
\* config), the counts; num_users = 0 raises ZeroDivisionError
GenerateMeeting ==
    /\ gen_pc = "start"
    /\ users' = [k \in 1..meeting.num_users |-> SyntheticUser]
    /\ meeting' = IF meeting.speakers = <<>>
                  THEN [meeting EXCEPT !.speakers =
                          _create_synthetic_speakers(speaker_patterns,
                                                     meeting.duration_sec)]
                  ELSE meeting
    /\ gen_pc' = IF meeting.num_users = 0 THEN "raised" ELSE "loop"
    /\ user_i' = 1
    /\ slot_i' = 0
    /\ clock' = meeting.start_time
    /\ chunk_index' = 0
    /\ synthetic_calls' = <<>>
    /\ generated' = <<>>
    /\ UNCHANGED <<replayVars, loadVars, configVars, builderVars,
                   audio_speaker_patterns, speaker_patterns>>

\* one pass of the inner loop, writing index as the chunk's i; the decode of
\* an audio_chunk that is a str raises AttributeError before the entry is
\* made, the modulo by int(speaker_update_interval_sec / chunk_duration_sec)
\* raises ZeroDivisionError after the audio entry is appended when that is 0
SlotStep(index) ==
    /\ gen_pc = "loop"
    /\ user_i <= Len(users)
    /\ slot_i < chunks_per_user
    /\ LET user == users[user_i]
           relative_time == slot_i * meeting.chunk_duration_sec
           pattern == SelectPattern(audio_speaker_patterns, slot_i,
                                    meeting.chunk_duration_sec)
           audio_call == [url |-> "/extension/audio",
                          queryString |-> AudioQuery(index, user),
                          text |-> Latin1Decode(pattern.audio_chunk),
                          startedDateTime |-> IsoFormat(clock)]
           audio_values == [kind |-> "audio", ts |-> clock,
                            conn |-> user.connection_id, idx |-> index,
                            meeting |-> meeting.meeting_id,
                            body |-> pattern.audio_chunk]
           every == meeting.speaker_update_interval_sec
                        \div meeting.chunk_duration_sec
       IN IF pattern.audio_chunk.type # "bytes"
          THEN /\ gen_pc' = "raised"
               /\ UNCHANGED <<user_i, slot_i, clock, chunk_index,
                              synthetic_calls, generated>>
          ELSE IF every = 0
          THEN /\ gen_pc' = "raised"
               /\ synthetic_calls' = Append(synthetic_calls, audio_call)
               /\ generated' = Append(generated, audio_values)
               /\ UNCHANGED <<user_i, slot_i, clock, chunk_index>>
          ELSE /\ synthetic_calls' =
                    IF slot_i % every = 0
                    THEN Append(synthetic_calls, audio_call)
                           \o SpeakerCalls(meeting.speakers, pattern, user,
                                           relative_time, clock)
                    ELSE Append(synthetic_calls, audio_call)
               /\ generated' =
                    IF slot_i % every = 0
                    THEN Append(generated, audio_values)
                           \o SpeakerValues(meeting.speakers, pattern, user,
                                            relative_time, clock)
                    ELSE Append(generated, audio_values)
               /\ clock' = AdvancedClock
               /\ chunk_index' = chunk_index + 1
               /\ IF slot_i + 1 < chunks_per_user
                  THEN slot_i' = slot_i + 1 /\ user_i' = user_i
                  ELSE slot_i' = 0 /\ user_i' = user_i + 1
               /\ gen_pc' = gen_pc
    /\ UNCHANGED <<replayVars, loadVars, configVars, builderVars,
                   audio_speaker_patterns, speaker_patterns, meeting, users>>

\* mutant: the chunk index restarts at 0 for every user
GenerateSlotIndexPerUser == SlotStep(slot_i)

\* one pass of the inner loop of generate_meeting
GenerateSlot == SlotStep(chunk_index)

\* return synthetic_calls
GenerateReturn ==
    /\ gen_pc = "loop"
    /\ user_i > Len(users) \/ chunks_per_user = 0
    /\ gen_pc' = "done"
    /\ UNCHANGED <<replayVars, loadVars, configVars, builderVars,
                   audio_speaker_patterns, speaker_patterns, meeting, users,
                   user_i, slot_i, clock, chunk_index, synthetic_calls,
                   generated>>

\* the construction of a generator from a template file
InitExtract ==
    /\ phase = "Idle"
    /\ entries = <<>>
    /\ previous_time = 0
    /\ current_time = 0
    /\ ReplayIdle
    /\ LoadIdle
    /\ preserve_timing = DefaultPreserveTiming
    /\ time_scale = DefaultTimeScale
    /\ template \in Templates
    /\ pending_meetings = <<>>
    /\ har_entries = <<>>
    /\ outputs = <<>>
    /\ generated = <<>>
    /\ audio_speaker_patterns = <<>>
    /\ speaker_patterns = <<>>
    /\ meeting = [meeting_id |-> DefaultMeetingId]
    /\ gen_pc = "construct"
    /\ users = <<>>
    /\ user_i = 0
    /\ slot_i = 0
    /\ clock = 0
    /\ chunk_index = 0
    /\ synthetic_calls = <<>>

SpecExtract == InitExtract /\ [][LoadTemplateData]_vars

\* ------------------------------------------------ generate_test_scenario
\* mutant: at equal timestamps the speaker entries are put before the audio
\* entries
SortKeySpeakersFirst(e) ==
    2 * e.startedDateTime.ticks
        + (IF e.url = "/extension/audio" THEN 1 ELSE 0)

\* the sort key: datetime.fromisoformat(startedDateTime.rstrip('Z'))
SortKey(e) == e.startedDateTime.ticks

\* list.sort is stable: an entry goes behind the entries whose key is not
\* greater than its own
RECURSIVE InsertionSort(_)
InsertionSort(es) ==
    IF es = <<>> THEN <<>>
    ELSE LET sorted == InsertionSort(SubSeq(es, 1, Len(es) - 1))
             e == es[Len(es)]
             n == Cardinality({k \in 1..Len(sorted) :
                                 SortKey(sorted[k]) <= SortKey(e)})
         IN SubSeq(sorted, 1, n) \o <<e>>
              \o SubSeq(sorted, n + 1, Len(sorted))

\* mutant: the entries are written in generation order
LeftInGenerationOrder(es) == es

\* har_data['log']['entries'].sort(key=...)
SortByTimestamp(es) == InsertionSort(es)

\* ------------------------------------------------- validate_generated_data
\* the longest list of calls that is validated
MaxCalls == 3

\* s.rstrip('Z')
RStripZ(s) == [s EXCEPT !.suffix = IF @ = "Z" THEN "" ELSE @]

\* datetime.fromisoformat accepts the text: of the texts of the model, the
\* ones without a suffix
IsoParses(s) == s.suffix = ""

\* int(s) accepts the text
IntParses(digits) == digits # <<>>

\* json.loads accepts the text
JsonParses(text) == "json" \in DOMAIN text

\* mutant: the calls are scanned in the order of the list
CallsInListOrder(calls) == calls

\* sorted(synthetic_calls, key=...), which is stable
SortedCalls(calls) == InsertionSort(calls)

\* mutant: only the first index of a connection is held against 0
RECURSIVE ScanCallsFirstIndexOnly(_, _)
ScanCallsFirstIndexOnly(calls, audio_chunks_by_connection) ==
    IF calls = <<>> THEN "True"
    ELSE
      LET call == calls[1]
          query == call.queryString
          rest == Tail(calls)
      IN
        IF call.url = "/extension/audio"
        THEN IF ~QueryHas(query, "connection_id") THEN "raised"
             ELSE IF ~QueryHas(query, "i") THEN "raised"
             ELSE IF ~IntParses(QueryGet(query, "i")) THEN "raised"
             ELSE
               LET connection_id == QueryGet(query, "connection_id")
                   index == ParseInt(QueryGet(query, "i"))
                   seen == IF connection_id \in DOMAIN audio_chunks_by_connection
                           THEN audio_chunks_by_connection[connection_id]
                           ELSE <<>>
               IN IF seen = <<>> /\ index # 0
                  THEN "False"
                  ELSE ScanCallsFirstIndexOnly(rest,
                         [c \in DOMAIN audio_chunks_by_connection
                                  \cup {connection_id} |->
                            IF c = connection_id
                            THEN Append(seen, index)
                            ELSE audio_chunks_by_connection[c]])
        ELSE IF call.url = "/extension/speakers"
        THEN IF ~QueryHas(query, "connection_id") THEN "raised"
             ELSE IF ~JsonParses(call.text) THEN "raised"
             ELSE
               LET speaker_data == call.text.json IN
                 IF "speaker_name" \notin DOMAIN speaker_data THEN "raised"
                 ELSE IF "meta" \notin DOMAIN speaker_data THEN "raised"
                 ELSE IF Len(speaker_data.meta) = 0 THEN "raised"
                 ELSE ScanCallsFirstIndexOnly(rest, audio_chunks_by_connection)
        ELSE ScanCallsFirstIndexOnly(rest, audio_chunks_by_connection)

\* the loop over the sorted calls, with audio_chunks_by_connection: "True"
\* when the loop ends, "False" at a return False, "raised" at an exception
RECURSIVE ScanCalls(_, _)
ScanCalls(calls, audio_chunks_by_connection) ==
    IF calls = <<>> THEN "True"
    ELSE
      LET call == calls[1]
          query == call.queryString
          rest == Tail(calls)
      IN
        IF call.url = "/extension/audio"
        THEN IF ~QueryHas(query, "connection_id") THEN "raised"
             ELSE IF ~QueryHas(query, "i") THEN "raised"
             ELSE IF ~IntParses(QueryGet(query, "i")) THEN "raised"
             ELSE
               LET connection_id == QueryGet(query, "connection_id")
                   index == ParseInt(QueryGet(query, "i"))
                   seen == IF connection_id \in DOMAIN audio_chunks_by_connection
                           THEN audio_chunks_by_connection[connection_id]
                           ELSE <<>>
               IN IF seen # <<>> /\ index # seen[Len(seen)] + 1
                  THEN "False"
                  ELSE IF seen = <<>> /\ index # 0
                  THEN "False"
                  ELSE ScanCalls(rest,
                         [c \in DOMAIN audio_chunks_by_connection
                                  \cup {connection_id} |->
                            IF c = connection_id
                            THEN Append(seen, index)
                            ELSE audio_chunks_by_connection[c]])
        ELSE IF call.url = "/extension/speakers"
        THEN IF ~QueryHas(query, "connection_id") THEN "raised"
             ELSE IF ~JsonParses(call.text) THEN "raised"
             ELSE
               LET speaker_data == call.text.json IN
                 IF "speaker_name" \notin DOMAIN speaker_data THEN "raised"
                 ELSE IF "meta" \notin DOMAIN speaker_data THEN "raised"
                 ELSE IF Len(speaker_data.meta) = 0 THEN "raised"
                 ELSE ScanCalls(rest, audio_chunks_by_connection)
        ELSE ScanCalls(rest, audio_chunks_by_connection)

\* the body of the try: the sort, whose key parses every timestamp, then the
\* loop
ValidateBody(calls) ==
    IF \E k \in 1..Len(calls) : ~IsoParses(RStripZ(calls[k].startedDateTime))
    THEN "raised"
    ELSE ScanCalls(SortedCalls(calls), <<>>)

\* validate_generated_data: an exception is logged and False is returned
validate_generated_data(calls) == ValidateBody(calls) = "True"

\* the entries that are validated: audio entries of two connections, with or
\* without their query fields (one lacks only the meeting_id, which the
\* validation does not read); speaker entries with a body of the generated
\* shape, with a text that is not JSON, with a body that lacks meta or has an
\* empty one, or without connection_id; an entry of another URL; an entry
\* whose startedDateTime is not an ISO text
ValidatedAudio(c, index, t) ==
    [url |-> "/extension/audio",
     queryString |-> <<[name |-> "i", value |-> Str(index)],
                       [name |-> "connection_id", value |-> c],
                       [name |-> "meeting_id", value |-> DefaultMeetingId]>>,
     text |-> StrOf(<<1>>),
     startedDateTime |-> IsoFormat(t)]

ValidatedSpeaker(query, text) ==
    [url |-> "/extension/speakers",
     queryString |-> query,
     text |-> text,
     startedDateTime |-> IsoFormat(0)]

ConnectionQuery ==
    <<[name |-> "connection_id", value |-> DefaultConnectionId],
      [name |-> "meeting_id", value |-> DefaultMeetingId]>>

ValidatedEntries ==
    {ValidatedAudio(DefaultConnectionId, i, t) : i \in 0..2, t \in 0..1}
    \cup {ValidatedAudio("uuid-4", i, 0) : i \in 0..1}
    \cup {[ValidatedAudio(DefaultConnectionId, 0, 0) EXCEPT
              !.queryString = q] :
            q \in {<<[name |-> "i", value |-> Str(0)],
                     [name |-> "connection_id", value |-> "uuid-4"]>>,
                   <<[name |-> "i", value |-> Str(0)]>>,
                   <<[name |-> "connection_id", value |-> DefaultConnectionId]>>,
                   <<[name |-> "i", value |-> <<>>],
                     [name |-> "connection_id",
                      value |-> DefaultConnectionId]>>}}
    \cup {ValidatedSpeaker(ConnectionQuery, text) :
            text \in {JsonDumps([speaker_name |-> "T1", meta |-> MetaOn]),
                      JsonDumps([speaker_name |-> "T1", meta |-> <<>>]),
                      JsonDumps([speaker_name |-> "T1"]),
                      StrOf(<<1>>)}}
    \cup {ValidatedSpeaker(<<[name |-> "meeting_id",
                              value |-> DefaultMeetingId]>>,
                           JsonDumps([speaker_name |-> "T1", meta |-> MetaOn]))}
    \cup {[ValidatedAudio(DefaultConnectionId, 0, 1) EXCEPT
              !.url = "/extension/other"],
          [ValidatedAudio(DefaultConnectionId, 0, 1) EXCEPT
              !.startedDateTime = [ticks |-> 1, suffix |-> "Z"]],
          [ValidatedAudio(DefaultConnectionId, 0, 0) EXCEPT
              !.startedDateTime = [ticks |-> 0, suffix |-> " UTC"]]}

ValidatedLists ==
    UNION {[1..n -> ValidatedEntries] : n \in 0..MaxCalls}

InitValidate ==
    /\ phase = "Idle"
    /\ entries = <<>>
    /\ previous_time = 0
    /\ current_time = 0
    /\ ReplayIdle
    /\ LoadIdle
    /\ preserve_timing = DefaultPreserveTiming
    /\ time_scale = DefaultTimeScale
    /\ BuilderIdle
    /\ generated = <<>>
    /\ audio_speaker_patterns = <<>>
    /\ speaker_patterns = <<>>
    /\ meeting = [meeting_id |-> DefaultMeetingId]
    /\ gen_pc = "validate"
    /\ users = <<>>
    /\ user_i = 0
    /\ slot_i = 0
    /\ clock = 0
    /\ chunk_index = 0
    /\ synthetic_calls \in ValidatedLists

\* validate_generated_data(synthetic_calls) returns
ValidateGeneratedData ==
    /\ gen_pc = "validate"
    /\ gen_pc' = IF validate_generated_data(synthetic_calls)
                 THEN "valid" ELSE "invalid"
    /\ UNCHANGED <<replayVars, configVars, loadVars, builderVars,
                   audio_speaker_patterns, speaker_patterns, meeting, users,
                   user_i, slot_i, clock, chunk_index, synthetic_calls,
                   generated>>

SpecValidate == InitValidate /\ [][ValidateGeneratedData]_vars

\* a scenario of two meetings of the same shape, the second one starting
\* up to MaxStart ticks after the first, with the same meeting id or another
InitScenario ==
    /\ phase = "Idle"
    /\ entries = <<>>
    /\ previous_time = 0
    /\ current_time = 0
    /\ ReplayIdle
    /\ LoadIdle
    /\ preserve_timing = DefaultPreserveTiming
    /\ time_scale = DefaultTimeScale
    /\ \E rels \in RelSeqs :
          LET loaded == _load_template_data(TemplateOf(rels, 0))
          IN /\ template = TemplateOf(rels, 0)
             /\ audio_speaker_patterns \in
                    {loaded.audio_speaker_patterns,
                     AsDeclared(loaded.audio_speaker_patterns)}
             /\ speaker_patterns = loaded.speaker_patterns
    /\ meeting \in Meetings
    /\ \E s \in 0..MaxStart, id \in {DefaultMeetingId, "meeting-2"} :
          pending_meetings =
              <<[meeting EXCEPT !.start_time = s, !.meeting_id = id]>>
    /\ har_entries = <<>>
    /\ outputs = <<>>
    /\ generated = <<>>
    /\ gen_pc = "start"
    /\ users = <<>>
    /\ user_i = 0
    /\ slot_i = 0
    /\ clock = 0
    /\ chunk_index = 0
    /\ synthetic_calls = <<>>

\* entries.extend(synthetic_calls), and the next meeting of the loop if any
ExtendEntries ==
    /\ gen_pc = "done"
    /\ har_entries' = har_entries \o synthetic_calls
    /\ outputs' = Append(outputs, synthetic_calls)
    /\ IF pending_meetings # <<>>
       THEN /\ meeting' = Head(pending_meetings)
            /\ pending_meetings' = Tail(pending_meetings)
            /\ gen_pc' = "start"
       ELSE /\ gen_pc' = "sort"
            /\ UNCHANGED <<meeting, pending_meetings>>
    /\ UNCHANGED <<replayVars, loadVars, configVars, template,
                   audio_speaker_patterns, speaker_patterns, users, user_i,
                   slot_i, clock, chunk_index, synthetic_calls, generated>>

\* the sort of the entries and the dump to the output file
SortAndSave ==
    /\ gen_pc = "sort"
    /\ har_entries' = SortByTimestamp(har_entries)
    /\ gen_pc' = "written"
    /\ UNCHANGED <<replayVars, loadVars, configVars, template,
                   pending_meetings, outputs, audio_speaker_patterns,
                   speaker_patterns, meeting, users, user_i, slot_i, clock,
                   chunk_index, synthetic_calls, generated>>

NextScenario ==
    \/ GenerateMeeting
    \/ GenerateSlot
    \/ GenerateReturn
    \/ ExtendEntries
    \/ SortAndSave

SpecScenario == InitScenario /\ [][NextScenario]_vars

\* ------------------------------------------- replay of a written scenario
\* the loop of replay_calls over the entries of the written log: the calls
\* that from_har_entry makes, with the entry's position as seq; accepted says
\* whether the Sender takes the body of a speaker call
RECURSIVE WrittenCalls(_, _)
WrittenCalls(har, n) ==
    IF n = 0 THEN <<>>
    ELSE IF KeptAtLoad(har[n])
         THEN LET call == from_har_entry(har[n]) IN
                Append(WrittenCalls(har, n - 1),
                       [kind |-> call.kind, ts |-> call.ts,
                        conn |-> call.conn, idx |-> call.idx,
                        body |-> call.body # <<>>, seq |-> n,
                        accepted |-> \/ call.kind = "audio"
                                     \/ SendSpeakersAccepts(call.body)])
         ELSE WrittenCalls(har, n - 1)

\* AudioCall.from_har_entry raises on an audio entry of the written log
WrittenLoadRaises(har) ==
    \E n \in 1..Len(har) :
        /\ har[n].url = "/extension/audio"
        /\ from_har_entry(har[n]).kind = "raised"

\* replay_calls on the file generate_test_scenario has written: the load,
\* the collection of the calls and the sort
LoadWritten ==
    /\ gen_pc = "written"
    /\ phase = "Idle"
    /\ IF WrittenLoadRaises(har_entries)
       THEN /\ phase' = "Failed"
            /\ all_calls' = <<>>
       ELSE LET calls == WrittenCalls(har_entries, Len(har_entries)) IN
              IF calls = <<>>
              THEN /\ phase' = "NoCalls"
                   /\ all_calls' = calls
              ELSE /\ phase' = "Validating"
                   /\ all_calls' = SortByTime(calls)
    /\ UNCHANGED <<entries, pos, pc, inflight, sent_chunks, previous_time,
                   current_time, delay, dispatched, outcomes, artifact,
                   write_failed, report, missing_logged, configVars, genVars,
                   loadVars, builderVars>>

\* the scenarios that are replayed: one or two users, meetings of one or
\* two seconds
RoundTripUsers == {1, 2}

RoundTripDurations == {2, 4}

\* a scenario for which generate_test_scenario writes a log: a template of
\* one pattern with an audio chunk of the declared type, meetings with users
\* and an update interval of at least one chunk
InitRoundTrip ==
    /\ InitScenario
    /\ Len(audio_speaker_patterns) = 1
    /\ audio_speaker_patterns[1].audio_chunk.type = "bytes"
    /\ meeting.num_users \in RoundTripUsers
    /\ meeting.duration_sec \in RoundTripDurations
    /\ meeting.speaker_update_interval_sec >= meeting.chunk_duration_sec

NextRoundTrip ==
    \/ GenerateMeeting
    \/ GenerateSlot
    \/ GenerateReturn
    \/ ExtendEntries
    \/ SortAndSave
    \/ LoadWritten
    \/ ValidateChunks
    \/ Dispatch
    \/ SendReturns
    \/ Audit

SpecRoundTrip == InitRoundTrip /\ [][NextRoundTrip]_vars

NextGen ==
    \/ GenerateMeeting
    \/ GenerateSlot
    \/ GenerateReturn

SpecGen == InitGen /\ [][NextGen]_vars

\* ------------------------------------------------------------ properties
\* what the log file says, read off the entries
AudioPositions(c) ==
    {k \in 1..Len(entries) : entries[k].kind = "audio" /\ entries[k].conn = c}

\* the entries that are calls to replay: the audio entries and the speaker
\* entries with a connection_id and a meeting_id
Replayable ==
    {k \in 1..Len(entries) :
        entries[k].kind = "audio" \/ entries[k].form = "ok"}

EntryConns == {c \in Conns : AudioPositions(c) # {}}

EntryIndices(c) == {entries[k].idx : k \in AudioPositions(c)}

LowestIndex(c) ==
    CHOOSE m \in EntryIndices(c) : \A j \in EntryIndices(c) : m <= j

SomeLowestNotZero == \E c \in EntryConns : LowestIndex(c) # 0

\* the indices of connection c whose send has returned without error
SentOk(c) ==
    {dispatched[k].idx : k \in {j \in 1..Len(outcomes) :
        /\ outcomes[j]
        /\ dispatched[j].kind = "audio"
        /\ dispatched[j].conn = c}}

EveryEntryDispatchedOnce ==
    /\ Len(dispatched) = Cardinality(Replayable)
    /\ \A n \in Replayable :
          \E k \in 1..Len(dispatched) :
              /\ dispatched[k].seq = n
              /\ dispatched[k].kind = entries[n].kind
              /\ dispatched[k].ts = entries[n].ts
              /\ dispatched[k].conn = entries[n].conn
              /\ dispatched[k].idx = entries[n].idx

\* C1: when some connection's lowest audio chunk index is not 0, the run never
\* gets past validation and no call is dispatched, for any connection
C1_AbortBeforeAnyDispatch ==
    \/ /\ phase \in {"Idle", "Loading", "Validating", "Aborted", "NoCalls",
                      "Failed"}
       /\ dispatched = <<>>
       /\ inflight = {}
       /\ outcomes = <<>>
       /\ sent_chunks = {}
    \/ ~SomeLowestNotZero

\* the run has aborted on a log with one valid and one invalid connection
C1_Witness ==
    /\ phase = "Aborted"
    /\ \E c \in EntryConns : LowestIndex(c) = 0
    /\ \E c \in EntryConns : LowestIndex(c) # 0
    /\ dispatched = <<>>

\* C2: the calls are dispatched in non-decreasing timestamp order, and calls
\* of equal timestamp in the order of the log, whatever their kinds
C2_DispatchInTimeOrder ==
    \A i, j \in 1..Len(dispatched) :
        i < j =>
            \/ dispatched[i].ts < dispatched[j].ts
            \/ /\ dispatched[i].ts = dispatched[j].ts
               /\ dispatched[i].seq < dispatched[j].seq

\* a completed run that moved a call before an earlier entry of the log and
\* that kept a speaker call and an audio call of equal timestamp in log order
C2_Witness ==
    /\ phase = "Completed"
    /\ \E i, j \in 1..Len(dispatched) :
          i < j /\ dispatched[i].seq > dispatched[j].seq
    /\ \E i, j \in 1..Len(dispatched) :
          /\ i < j
          /\ dispatched[i].ts = dispatched[j].ts
          /\ dispatched[i].kind = "speaker"
          /\ dispatched[j].kind = "audio"

\* C3: after validation the records of the ordered sequence are dispatched one
\* by one, each once, whatever the earlier sends returned; a failure only
\* moves the loop to the next record
C3_EveryRecordDispatched ==
    /\ phase \in {"Replaying", "Completed"} =>
          /\ dispatched = SubSeq(all_calls, 1, Len(dispatched))
          /\ Len(dispatched) = IF pc = "sending" THEN pos ELSE pos - 1
          /\ Len(outcomes) = pos - 1
    /\ phase = "Completed" =>
          /\ dispatched = all_calls
          /\ EveryEntryDispatchedOnce

\* a completed run whose first send failed and was followed by other sends
C3_Witness ==
    /\ phase = "Completed"
    /\ Len(outcomes) >= 2
    /\ ~outcomes[1]
    /\ outcomes[2]

\* C4: the delay law of _calculate_delay
C4_DelayLaw ==
    phase = "DelayReturned" =>
        /\ delay >= 0
        /\ ~preserve_timing => delay = 0
        /\ preserve_timing =>
              /\ delay >= (current_time - previous_time) * time_scale
              /\ delay \in {0, (current_time - previous_time) * time_scale}
        /\ (preserve_timing /\ current_time - previous_time = 10
               /\ time_scale = 2 * ScaleDen) => delay = 20 * ScaleDen

\* timestamps 10 s apart with time_scale 2.0 have given 20 s
C4_Witness ==
    /\ phase = "DelayReturned"
    /\ preserve_timing
    /\ current_time - previous_time = 10
    /\ time_scale = 2 * ScaleDen
    /\ delay = 20 * ScaleDen

\* C5: at most one send is in flight, and a call is dispatched only when every
\* earlier dispatched call has returned
C5_OneCallInFlight ==
    /\ Cardinality(inflight) <= 1
    /\ Len(dispatched) = Len(outcomes) + Cardinality(inflight)

\* the second call is in flight after the first one has failed
C5_Witness ==
    /\ pc = "sending"
    /\ inflight = {2}
    /\ outcomes = <<FALSE>>

\* C6: the phases succeed one another in the order Idle, Loading, Validating,
\* Replaying, Completed (a log without calls, or with an unreadable audio
\* entry, ends the run after Loading); the run aborts only from Validating
\* and only on a lowest chunk index other than 0
PhaseEdges ==
    {<<"Idle", "Loading">>, <<"Loading", "Validating">>,
     <<"Loading", "NoCalls">>, <<"Loading", "Failed">>,
     <<"Validating", "Replaying">>,
     <<"Validating", "Aborted">>, <<"Replaying", "Completed">>}

C6_PhaseOrder ==
    [][phase' # phase =>
          /\ <<phase, phase'>> \in PhaseEdges
          /\ phase' = "Aborted" => SomeLowestNotZero]_vars

\* a run has completed although an append to the webm file failed, an audio
\* call had no body and a chunk index was missing
C6_Witness ==
    /\ phase = "Completed"
    /\ write_failed # {}
    /\ \E k \in 1..Len(dispatched) :
          dispatched[k].kind = "audio" /\ ~dispatched[k].body
    /\ \E c \in Conns : missing_logged[c] # {}

\* C7: the closing audit reports a connection with count audio records as
\* failed exactly when some index of 0..count-1 was not sent successfully on
\* it, and as fully sent otherwise
C7_AuditReport ==
    phase = "Completed" =>
        \A c \in Conns :
            LET count == Cardinality(AudioPositions(c)) IN
              /\ count = 0 => report[c] = "none"
              /\ count > 0 =>
                    /\ report[c] = "failed"
                          <=> (\E i \in 0..(count - 1) : i \notin SentOk(c))
                    /\ report[c] = "full"
                          <=> (\A i \in 0..(count - 1) : i \in SentOk(c))

\* the log with indices 0, 1, 2 on one connection and no speaker call: three
\* audio sends, all successful, and a fully-sent report
C7_Witness ==
    /\ phase = "Completed"
    /\ Len(entries) = 3
    /\ \A k \in 1..3 : entries[k].kind = "audio" /\ entries[k].conn = "A"
    /\ EntryIndices("A") = {0, 1, 2}
    /\ Len(dispatched) = 3
    /\ \A k \in 1..3 : dispatched[k].kind = "audio" /\ outcomes[k]
    /\ report["A"] = "full"

\* C8: when every connection's lowest index is 0, gaps and duplicates in the
\* indices do not abort the run: the missing indices are logged and every
\* entry is dispatched
C8_GapsDoNotBlock ==
    /\ phase = "Aborted" => SomeLowestNotZero
    /\ phase \in {"Replaying", "Completed"} =>
          \A c \in EntryConns :
              LowestIndex(c) = 0 =>
                  missing_logged[c] =
                      (0..(Cardinality(AudioPositions(c)) - 1)) \ EntryIndices(c)
    /\ phase = "Completed" => EveryEntryDispatchedOnce

\* a completed run on a log with indices 0 and 2 on one connection
C8_Witness ==
    /\ phase = "Completed"
    /\ \E c \in EntryConns :
          /\ EntryIndices(c) = {0, 2}
          /\ missing_logged[c] = {1}
    /\ EveryEntryDispatchedOnce

\* what generate_meeting has emitted for connection c, in emission order
EmittedAudio(c) == ChunksOf(AudioCalls(LoadedCalls(synthetic_calls)), c)

C10_DistinctIdentities ==
    \A i, j \in 1..Len(users) :
        i # j =>
            /\ users[i].user_id # users[j].user_id
            /\ users[i].connection_id # users[j].connection_id

\* two users of one meeting have been created with the same user id and the
\* same connection id
C10_SharedIdentity ==
    /\ gen_pc = "loop"
    /\ Len(users) = 2
    /\ users[1].user_id = users[2].user_id
    /\ users[1].connection_id = users[2].connection_id

\* the speaker entries that have a meeting_id
SpeakerPositions ==
    {k \in 1..Len(entries) :
        entries[k].kind = "speaker" /\ entries[k].form # "no_meeting"}

\* C14: once the log is loaded, every speaker entry that has a meeting_id is
\* a call of the sequence to replay, with or without a connection_id
C14_GlobalSpeakerReplayed ==
    phase \in {"NoCalls", "Validating", "Aborted", "Replaying", "Completed"} =>
        \A k \in SpeakerPositions :
            \E j \in 1..Len(all_calls) : all_calls[j].seq = k

\* a run has completed without dispatching a speaker entry that has a
\* meeting_id and no connection_id
C14_GlobalSpeakerDropped ==
    /\ phase = "Completed"
    /\ \E k \in SpeakerPositions :
          /\ entries[k].form = "no_conn"
          /\ \A j \in 1..Len(dispatched) : dispatched[j].seq # k

\* C15: a run that has entered Replaying reaches Completed, with a report of
\* the closing audit for every connection that has audio records
C15_ReplayCompletes ==
    (phase = "Replaying") ~>
        (/\ phase = "Completed"
         /\ \A c \in EntryConns : report[c] \in {"full", "failed"})

\* a run has completed after a failed send, and the audit has reported the
\* connection as failed
C15_Witness ==
    /\ phase = "Completed"
    /\ \E k \in 1..Len(outcomes) : ~outcomes[k]
    /\ \E c \in EntryConns : report[c] = "failed"

\* the audio calls of connection c dispatched so far that have a body and,
\* when appended is set, whose append has not failed: their positions in the
\* log, in dispatch order
RECURSIVE BodiesDispatched(_, _, _)
BodiesDispatched(c, n, appended) ==
    IF n = 0 THEN <<>>
    ELSE LET d == dispatched[n]
             front == BodiesDispatched(c, n - 1, appended)
         IN IF /\ d.kind = "audio"
               /\ d.conn = c
               /\ d.body
               /\ ~appended \/ d.seq \notin write_failed
            THEN Append(front, d.seq)
            ELSE front

\* C16: during and after the replay the file of a connection holds the
\* bodies of the connection's audio calls dispatched so far that have a
\* body, in dispatch order, whatever their sends have returned; nothing of an
\* earlier run is left in it
C16_ArtifactExact ==
    phase \in {"Replaying", "Completed"} =>
        \A c \in Conns :
            artifact[c] = BodiesDispatched(c, Len(dispatched), FALSE)

\* C16, amended: the file holds the bodies of the calls dispatched so far
\* that have a body and whose append has not failed
C16_ArtifactOfAppended ==
    phase \in {"Replaying", "Completed"} =>
        \A c \in Conns :
            artifact[c] = BodiesDispatched(c, Len(dispatched), TRUE)

\* the body of a chunk is in the file of connection "B" although its send
\* has failed, and an audio call without a body has been sent without append
C16_Witness ==
    /\ phase = "Completed"
    /\ \E k \in 1..Len(dispatched) :
          /\ dispatched[k].kind = "audio"
          /\ dispatched[k].conn = "B"
          /\ dispatched[k].body
          /\ ~outcomes[k]
          /\ \E j \in 1..Len(artifact["B"]) :
                artifact["B"][j] = dispatched[k].seq
    /\ \E k \in 1..Len(dispatched) :
          /\ dispatched[k].kind = "audio"
          /\ ~dispatched[k].body
          /\ outcomes[k]

C18_DelayFromPrecedingRecord ==
    (phase = "Replaying" /\ pc = "sending" /\ pos > 1) =>
        delay = _calculate_delay(all_calls[pos].ts, all_calls[pos - 1].ts,
                                 preserve_timing, time_scale)

\* after a failed send the next call, of the same timestamp as the failed
\* one, has been delayed by the gap to the call before the failed one
C18_DelayAfterFailure ==
    /\ phase = "Replaying"
    /\ pc = "sending"
    /\ pos = 3
    /\ outcomes = <<TRUE, FALSE>>
    /\ all_calls[3].ts = all_calls[2].ts
    /\ all_calls[2].ts > all_calls[1].ts
    /\ delay = (all_calls[3].ts - all_calls[1].ts) * time_scale
    /\ delay > 0

\* some audio entry lacks a query parameter or has an i that is no integer
SomeAudioUnreadable ==
    \E k \in 1..Len(entries) :
        entries[k].kind = "audio" /\ entries[k].form = "bad"

\* C20: a log with an audio entry that cannot be read is not replayed: the
\* load ends with the exception and no call of the log is dispatched
C20_UnreadableAudioIsFatal ==
    /\ SomeAudioUnreadable =>
          /\ phase \in {"Idle", "Loading", "Failed"}
          /\ all_calls = <<>>
          /\ dispatched = <<>>
          /\ inflight = {}
    /\ phase = "Failed" => SomeAudioUnreadable

\* the load has failed on a log that has readable entries before and after
\* the unreadable one
C20_Witness ==
    /\ phase = "Failed"
    /\ Len(entries) = 3
    /\ entries[1].form = "ok"
    /\ entries[2].kind = "audio" /\ entries[2].form = "bad"
    /\ entries[3].form = "ok"

\* a template of one audio entry followed by one speaker entry whose meta
\* bit strings are all '1'
OneAudioThenActiveSpeakers ==
    /\ Len(template) = 2
    /\ template[1].url = "audio" /\ template[1].content = "ok"
    /\ template[2].url = "speakers" /\ template[2].content = "ok"
    /\ \A k \in 1..Len(template[2].speakers) :
          template[2].speakers[k][2] = MetaOn

NoAudioEntries == \A k \in 1..Len(template) : template[k].url # "audio"

\* C13: once the generator's constructor has run, a template of one audio
\* entry followed by one speaker entry with all-'1' meta bits has given
\* exactly one pattern and, for each speaker of the entry, exactly one period,
\* as long as the nominal chunk duration; a template without audio entries
\* has made the constructor raise the no-patterns error, with no pattern kept
C13_ExtractOnePattern ==
    gen_pc \in {"constructed", "no_patterns"} =>
        /\ OneAudioThenActiveSpeakers =>
              /\ gen_pc = "constructed"
              /\ Len(audio_speaker_patterns) = 1
              /\ Len(speaker_patterns) = Len(template[2].speakers)
              /\ \A k \in 1..Len(speaker_patterns) :
                    /\ speaker_patterns[k].name = template[2].speakers[k][1]
                    /\ Len(speaker_patterns[k].periods) = 1
                    /\ speaker_patterns[k].periods[1][2]
                         - speaker_patterns[k].periods[1][1] = PatternTicks
        /\ NoAudioEntries =>
              /\ gen_pc = "no_patterns"
              /\ audio_speaker_patterns = <<>>

C13_Witness ==
    /\ gen_pc = "constructed"
    /\ OneAudioThenActiveSpeakers
    /\ Len(template[2].speakers) = 1

\* C19: generate_meeting does not raise for a config with at least one
\* user, a positive chunk duration and a positive speaker update interval,
\* the interval shorter than the chunk included
C19_GenerateCompletes ==
    (/\ gen_pc = "raised"
     /\ meeting.chunk_duration_sec > 0
     /\ meeting.speaker_update_interval_sec > 0)
        => meeting.num_users = 0

\* generate_meeting has raised on a config with the default chunk duration
\* of 1.0 s and the default interval of 0.5 s, with patterns whose audio
\* chunks are bytes: after the first audio entry, at the modulo by zero
C19_RaisedOnDefaults ==
    /\ gen_pc = "raised"
    /\ meeting.num_users > 0
    /\ meeting.chunk_duration_sec = 2
    /\ meeting.speaker_update_interval_sec = 1
    /\ \A k \in 1..Len(audio_speaker_patterns) :
          audio_speaker_patterns[k].audio_chunk.type = "bytes"
    /\ Len(synthetic_calls) = 1

\* the entries that the meetings' generate_meeting calls returned, in order
RECURSIVE Flatten(_)
Flatten(seqs) ==
    IF seqs = <<>> THEN <<>>
    ELSE Flatten(SubSeq(seqs, 1, Len(seqs) - 1)) \o seqs[Len(seqs)]

Occurrences(es, e) == Cardinality({k \in 1..Len(es) : es[k] = e})

\* the entries of es whose timestamp is t, in their order in es
RECURSIVE WithTimestamp(_, _)
WithTimestamp(es, t) ==
    IF es = <<>> THEN <<>>
    ELSE LET front == WithTimestamp(SubSeq(es, 1, Len(es) - 1), t)
         IN IF es[Len(es)].startedDateTime.ticks = t
            THEN Append(front, es[Len(es)])
            ELSE front

AudioAt(es) == {k \in 1..Len(es) : es[k].url = "/extension/audio"}

\* the number of audio entries of es before position k
AudioBefore(es, k) == Cardinality({j \in AudioAt(es) : j < k})

SlotOf(k) ==
    AudioBefore(synthetic_calls, k)
        % ((meeting.duration_sec \div meeting.chunk_duration_sec)
              \div meeting.num_users)

\* the patterns whose relative_timestamp is less than a chunk duration away
\* from the relative time of slot i
Within(i) ==
    {n \in 1..Len(audio_speaker_patterns) :
        LET d == audio_speaker_patterns[n].relative_timestamp
                    - i * meeting.chunk_duration_sec
        IN d < meeting.chunk_duration_sec /\ 0 - d < meeting.chunk_duration_sec}

SeveralPatternsClose ==
    /\ gen_pc = "done"
    /\ \E k \in AudioAt(synthetic_calls) : Cardinality(Within(SlotOf(k))) = 2

SlotEnd(k) ==
    IF \E j \in AudioAt(synthetic_calls) : j > k
    THEN CHOOSE j \in AudioAt(synthetic_calls) :
            j > k /\ \A o \in AudioAt(synthetic_calls) : o > k => j <= o
    ELSE Len(synthetic_calls) + 1

\* the speakers of the config, by number, that have an interval [start, end]
\* with start <= t <= end
Covering(t) ==
    {n \in 1..Len(meeting.speakers) :
        \E p \in 1..Len(meeting.speakers[n].speaking_patterns) :
            /\ meeting.speakers[n].speaking_patterns[p][1] <= t
            /\ t <= meeting.speakers[n].speaking_patterns[p][2]}

\* the number of speakers up to number n that cover t
RankIn(n, t) == Cardinality({m \in Covering(t) : m <= n})

\* slot index i is a multiple of speaker_update_interval / chunk_duration
MultipleOfRatio(i) ==
    (i * meeting.chunk_duration_sec) % meeting.speaker_update_interval_sec = 0

\* slot index i is a multiple of the whole part of that ratio
MultipleOfWholeRatio(i) ==
    i % (meeting.speaker_update_interval_sec
            \div meeting.chunk_duration_sec) = 0

\* the audio entry of a slot is followed by speaker entries only when
\* UpdateSlot holds of the slot index, and then by exactly one for each
\* speaker with an interval covering the slot's relative time, ends included,
\* in the speakers' order; each of them has the user's connection id, the
\* meeting id and the slot's timestamp
SpeakerEntriesOfSlots(UpdateSlot(_)) ==
    gen_pc \in {"loop", "done"} =>
        \A k \in AudioAt(synthetic_calls) :
            LET i == SlotOf(k)
                t == i * meeting.chunk_duration_sec
                user == users[(AudioBefore(synthetic_calls, k)
                                 \div ((meeting.duration_sec
                                          \div meeting.chunk_duration_sec)
                                         \div meeting.num_users)) + 1]
                count == SlotEnd(k) - k - 1
            IN /\ count = IF UpdateSlot(i)
                          THEN Cardinality(Covering(t)) ELSE 0
               /\ \A n \in Covering(t) :
                     count > 0 =>
                        LET e == synthetic_calls[k + RankIn(n, t)]
                        IN /\ e.url = "/extension/speakers"
                           /\ e.text.json.speaker_name
                                = meeting.speakers[n].name
                           /\ QueryGet(e.queryString, "connection_id")
                                = user.connection_id
                           /\ QueryGet(e.queryString, "meeting_id")
                                = meeting.meeting_id
                           /\ e.startedDateTime
                                = synthetic_calls[k].startedDateTime

SpeakersAtMultiplesOfWholeRatio == SpeakerEntriesOfSlots(MultipleOfWholeRatio)

\* one generation has a slot with a speaker entry for one of its two
\* speakers, at the end of that speaker's interval, and a slot between two
\* updates without an entry for the speaker active then
SpeakersOfSomeSlots ==
    /\ gen_pc = "done"
    /\ Len(meeting.speakers) = 2
    /\ \E k \in AudioAt(synthetic_calls) :
          LET t == SlotOf(k) * meeting.chunk_duration_sec
          IN /\ MultipleOfWholeRatio(SlotOf(k))
             /\ Cardinality(Covering(t)) = 1
             /\ SlotEnd(k) = k + 2
             /\ \E n \in Covering(t) :
                   \A p \in 1..Len(meeting.speakers[n].speaking_patterns) :
                       meeting.speakers[n].speaking_patterns[p][1] <= t
                           => meeting.speakers[n].speaking_patterns[p][2] <= t
    /\ \E k \in AudioAt(synthetic_calls) :
          /\ ~MultipleOfWholeRatio(SlotOf(k))
          /\ Covering(SlotOf(k) * meeting.chunk_duration_sec) # {}
          /\ SlotEnd(k) = k + 1

\* the greatest end of the template periods of speaker n
PeriodOf(n) ==
    CHOOSE m \in {speaker_patterns[n].periods[p][2] :
                    p \in 1..Len(speaker_patterns[n].periods)} :
        \A p \in 1..Len(speaker_patterns[n].periods) :
            speaker_patterns[n].periods[p][2] <= m

\* the intervals that the repetitions 0, 1, ... of the template periods of
\* speaker n give: shifted by k periods, those starting before the total
\* duration only, ended at the total duration at the latest
Repetitions(n) ==
    {<<k, p>> \in (0..meeting.duration_sec)
                    \X (1..Len(speaker_patterns[n].periods)) :
        k * PeriodOf(n) + speaker_patterns[n].periods[p][1]
            < meeting.duration_sec}

RepetitionInterval(n, kp) ==
    <<kp[1] * PeriodOf(n) + speaker_patterns[n].periods[kp[2]][1],
      Min(meeting.duration_sec,
          kp[1] * PeriodOf(n) + speaker_patterns[n].periods[kp[2]][2])>>

\* C25: the speakers that generate_meeting has made from the template
\* timelines have, each, the intervals of the timeline shifted by 0, 1, 2,
\* ... times the timeline's greatest end, without those that start at or
\* after the total duration and ended at the total duration at the latest;
\* every interval (s, e) has 0 <= s < total and s <= e <= total
C25_TiledTimelines ==
    gen_pc \in {"loop", "done", "raised"} =>
        /\ Len(meeting.speakers) = Len(speaker_patterns)
        /\ \A n \in 1..Len(meeting.speakers) :
              LET made == meeting.speakers[n].speaking_patterns
              IN /\ Len(made) = Cardinality(Repetitions(n))
                 /\ {made[q] : q \in 1..Len(made)}
                      = {RepetitionInterval(n, kp) : kp \in Repetitions(n)}
                 /\ \A q \in 1..Len(made) :
                       /\ 0 <= made[q][1]
                       /\ made[q][1] < meeting.duration_sec
                       /\ made[q][1] <= made[q][2]
                       /\ made[q][2] <= meeting.duration_sec

\* a speaker has been made with an interval of the second repetition, while
\* the interval of the third repetition starts too late and is left out
C25_Witness ==
    /\ gen_pc = "loop"
    /\ \E n \in 1..Len(meeting.speakers) :
          /\ Len(speaker_patterns[n].periods) = 1
          /\ meeting.duration_sec \div PeriodOf(n) = 2
          /\ Len(meeting.speakers[n].speaking_patterns) = 2
          /\ meeting.speakers[n].speaking_patterns[2][1] >= PeriodOf(n)

\* the audio entries of the template that have a text, and those of them
\* whose text parses
AudioWithText ==
    {a \in 1..Len(template) :
        template[a].url = "audio" /\ template[a].content # "none"}

ParsedAudio == {a \in AudioWithText : template[a].content = "ok"}

\* three readings of "audio entry": every audio entry with a text opens a
\* pattern; only those that parse do, the others being no audio entries; or
\* those that do not parse close the pattern before them and open nothing
Readings == {"every", "parsed", "closing"}

Closing(reading) == IF reading = "parsed" THEN ParsedAudio ELSE AudioWithText

Opening(reading) == IF reading = "every" THEN AudioWithText ELSE ParsedAudio

\* the speaker names that the speaker entries between the audio entry at a
\* and the next closing entry give as active: more than half of the meta
\* bits are '1'
ActiveAfter(a, reading) ==
    {template[kq[1]].speakers[kq[2]][1] :
        kq \in {kq \in (1..Len(template)) \X (1..2) :
            /\ kq[1] > a
            /\ \A c \in Closing(reading) : c > a => kq[1] < c
            /\ template[kq[1]].url = "speakers"
            /\ template[kq[1]].content = "ok"
            /\ kq[2] <= Len(template[kq[1]].speakers)
            /\ 2 * Cardinality(
                     {m \in 1..Len(template[kq[1]].speakers[kq[2]][2]) :
                         template[kq[1]].speakers[kq[2]][2][m] = "1"})
                 > Len(template[kq[1]].speakers[kq[2]][2])}}

\* the audio entries whose pattern is to be stored, in template order
RECURSIVE ToStore(_, _)
ToStore(n, reading) ==
    IF n = 0 THEN <<>>
    ELSE IF n \in Opening(reading) /\ ActiveAfter(n, reading) # {}
         THEN Append(ToStore(n - 1, reading), n)
         ELSE ToStore(n - 1, reading)

\* the stored patterns are those of the audio entries that got at least one
\* active speaker before the next audio entry or the end, one pattern each,
\* with these speakers
StoredAsOpened(reading) ==
    LET opened == ToStore(Len(template), reading)
    IN /\ Len(audio_speaker_patterns) = Len(opened)
       /\ \A n \in 1..Len(opened) :
             {audio_speaker_patterns[n].speaker_data[q].speaker_name :
                 q \in 1..Len(audio_speaker_patterns[n].speaker_data)}
               = ActiveAfter(opened[n], reading)

\* C26: every audio entry of the template opens a new current pattern; the
\* pattern before it is stored if and only if it has got an active speaker
\* (more than half of the meta bits '1'), and so is the pattern open at the
\* end of the scan; speaker entries before any audio entry attach to nothing
\* (whichever way the audio entries whose text does not parse are counted)
C26_PatternPerAudioEntry ==
    gen_pc \in {"constructed", "no_patterns"} =>
        \E reading \in Readings : StoredAsOpened(reading)

\* the scan of an audio entry, an active speaker, and an audio entry whose
\* text is not JSON has stored the one pattern twice
C26_PatternStoredTwice ==
    /\ gen_pc = "constructed"
    /\ Len(template) = 3
    /\ template[3].url = "audio" /\ template[3].content = "unparsed"
    /\ Len(audio_speaker_patterns) = 2
    /\ audio_speaker_patterns[1] = audio_speaker_patterns[2]

\* the same for the templates whose audio entries have a text that parses
StoredPatternsOfParsedAudio ==
    (/\ gen_pc \in {"constructed", "no_patterns"}
     /\ AudioWithText = ParsedAudio)
        => StoredAsOpened("every")

\* C27: when the loaded log yields no call, replay_calls returns at once:
\* the validation is not run and logs nothing, no call is dispatched, and
\* the accumulation files left by an earlier run are neither removed nor
\* written
C27_EmptyCallListReturns ==
    /\ phase = "NoCalls" =>
          /\ all_calls = <<>>
          /\ pc = "next" /\ inflight = {}
          /\ dispatched = <<>> /\ outcomes = <<>>
          /\ sent_chunks = {}
          /\ artifact = [c \in Conns |-> <<0>>]
          /\ write_failed = {}
          /\ missing_logged = [c \in Conns |-> {}]
          /\ report = [c \in Conns |-> "none"]
    /\ (phase \notin {"Idle", "Loading", "Failed"} /\ Replayable = {})
          => phase = "NoCalls"

\* the run on a log that holds only speaker entries without a connection_id
C27_Witness ==
    /\ phase = "NoCalls"
    /\ Len(entries) = 2
    /\ \A k \in 1..2 : entries[k].kind = "speaker" /\ entries[k].form # "ok"
    /\ artifact = [c \in Conns |-> <<0>>]

\* the positions of the dispatched audio calls of connection c whose send
\* has returned
AudioSends(c) ==
    {k \in 1..Len(outcomes) :
        dispatched[k].kind = "audio" /\ dispatched[k].conn = c}

\* C29: an index is in the sent set only when a send_audio call of it has
\* returned without error; a connection the closing audit reports as fully
\* sent has had every one of its audio records sent successfully, and a
\* connection with a failed audio send is reported as failed
C29_FullMeansEverySendSucceeded ==
    /\ \A p \in sent_chunks :
          \E k \in AudioSends(p[1]) : outcomes[k] /\ dispatched[k].idx = p[2]
    /\ phase = "Completed" =>
          \A c \in Conns :
              /\ report[c] = "full" =>
                    /\ Cardinality(AudioSends(c)) = Cardinality(AudioPositions(c))
                    /\ \A k \in AudioSends(c) : outcomes[k]
              /\ (\E k \in AudioSends(c) : ~outcomes[k]) => report[c] = "failed"

\* a completed run on a log that holds one index twice on a connection, one
\* of the two sends failed and the other successful
C29_Witness ==
    /\ phase = "Completed"
    /\ \E c \in Conns :
          /\ \E j, k \in AudioSends(c) :
                /\ j # k
                /\ dispatched[j].idx = dispatched[k].idx
                /\ outcomes[j] /\ ~outcomes[k]
          /\ report[c] = "failed"

\* C30: in a completed run, a connection whose audio sends have all
\* succeeded is reported as fully sent, whatever gaps or duplicates its
\* indices have
C30_AllSentMeansFull ==
    phase = "Completed" =>
        \A c \in EntryConns :
            (\A k \in AudioSends(c) : outcomes[k]) => report[c] = "full"

\* a completed run on a log with indices 0 and 2 on one connection: both
\* sends have succeeded and the connection is reported as failed, since the
\* audit expects 0 and 1
C30_GapReportedFailed ==
    /\ phase = "Completed"
    /\ \E c \in EntryConns :
          /\ EntryIndices(c) = {0, 2}
          /\ Cardinality(AudioSends(c)) = 2
          /\ \A k \in AudioSends(c) : outcomes[k]
          /\ report[c] = "failed"

\* the same for the connections whose indices are 0..count-1, each once
AllSentMeansFullWithoutGaps ==
    phase = "Completed" =>
        \A c \in EntryConns :
            (/\ EntryIndices(c) = 0..(Cardinality(AudioPositions(c)) - 1)
             /\ \A k \in AudioSends(c) : outcomes[k])
                => report[c] = "full"

\* an entry the validation cannot read: a startedDateTime that is not an
\* ISO text, an audio entry without connection_id or without a whole number
\* i, a speaker entry without connection_id or whose text is not the JSON
\* text of a speaker item with a name and a non-empty meta
Malformed(e) ==
    \/ e.startedDateTime.suffix \notin {"", "Z"}
    \/ /\ e.url = "/extension/audio"
       /\ \/ ~QueryHas(e.queryString, "connection_id")
          \/ ~QueryHas(e.queryString, "i")
          \/ QueryGet(e.queryString, "i") = <<>>
    \/ /\ e.url = "/extension/speakers"
       /\ \/ ~QueryHas(e.queryString, "connection_id")
          \/ "json" \notin DOMAIN e.text
          \/ {"speaker_name", "meta"} \ DOMAIN e.text.json # {}
          \/ e.text.json.meta = <<>>

\* entry j comes before entry k in timestamp order
Earlier(es, j, k) ==
    \/ es[j].startedDateTime.ticks < es[k].startedDateTime.ticks
    \/ /\ es[j].startedDateTime.ticks = es[k].startedDateTime.ticks
       /\ j < k

AudioEntriesOf(es, c) ==
    {k \in 1..Len(es) :
        /\ es[k].url = "/extension/audio"
        /\ QueryGet(es[k].queryString, "connection_id") = c}

IndexAt(es, k) == ParseInt(QueryGet(es[k].queryString, "i"))

\* in timestamp order, some connection's first audio index is not 0 or some
\* audio index is not one more than the connection's previous one
OutOfSequence(es) ==
    \E k \in 1..Len(es) :
        /\ es[k].url = "/extension/audio"
        /\ LET c == QueryGet(es[k].queryString, "connection_id")
               before == {j \in AudioEntriesOf(es, c) : Earlier(es, j, k)}
           IN IF before = {}
              THEN IndexAt(es, k) # 0
              ELSE LET prev == CHOOSE j \in before :
                                  \A i \in before \ {j} : Earlier(es, i, j)
                   IN IndexAt(es, k) # IndexAt(es, prev) + 1

C28_Rejected ==
    /\ gen_pc = "invalid"
    /\ \A k \in 1..Len(synthetic_calls) : ~Malformed(synthetic_calls[k])
    /\ Len(synthetic_calls) = 3

\* C31: a run that ends Aborted leaves the webm files as they were before
\* the run; the files are removed only once the validation has passed, and
\* nothing is appended to them before the first call is dispatched
C31_AbortLeavesArtifacts ==
    /\ phase = "Aborted" =>
          /\ artifact = [c \in Conns |-> <<0>>]
          /\ write_failed = {}
          /\ dispatched = <<>>
    /\ artifact # [c \in Conns |-> <<0>>] =>
          phase \in {"Replaying", "Completed"}
    /\ (phase = "Replaying" /\ dispatched = <<>>) =>
          artifact = [c \in Conns |-> <<>>]

\* an aborted run on a log that holds audio entries of two connections, the
\* first with index 0 and the second without
C31_Witness ==
    /\ phase = "Aborted"
    /\ EntryConns = Conns
    /\ \E c \in Conns : LowestIndex(c) = 0
    /\ artifact = [c \in Conns |-> <<0>>]

\* C32: no pattern is stored in audio_speaker_patterns more than once; two
\* stored patterns are the same one exactly when they have the same
\* relative_timestamp, since relative_time grows with every pattern opened
C32_NoPatternStoredTwice ==
    gen_pc = "constructed" =>
        \A j, k \in 1..Len(audio_speaker_patterns) :
            j # k => audio_speaker_patterns[j].relative_timestamp
                       # audio_speaker_patterns[k].relative_timestamp

\* a template in which an audio entry whose text does not parse follows a
\* speaker entry: the pattern stored at that audio entry is still the
\* current one afterwards and has been stored a second time
C32_StoredAgainAfterFailedParse ==
    /\ gen_pc = "constructed"
    /\ \E n \in 2..Len(template) :
          /\ template[n].url = "audio" /\ template[n].content = "unparsed"
          /\ template[n - 1].url = "speakers"
    /\ \E j, k \in 1..Len(audio_speaker_patterns) :
          /\ j < k
          /\ audio_speaker_patterns[j].relative_timestamp
                = audio_speaker_patterns[k].relative_timestamp
          /\ audio_speaker_patterns[j].speaker_data
                = audio_speaker_patterns[k].speaker_data

\* the same for the templates whose audio texts all parse
NoPatternStoredTwiceWhenAudioParses ==
    (gen_pc = "constructed" /\ AudioWithText = ParsedAudio) =>
        \A j, k \in 1..Len(audio_speaker_patterns) :
            j # k => audio_speaker_patterns[j].relative_timestamp
                       # audio_speaker_patterns[k].relative_timestamp

\* C33: a generator whose construction has returned holds at least one
\* pattern and every stored pattern has at least one speaker state; the
\* construction raises exactly when no pattern was stored
C33_PatternsNotEmpty ==
    /\ gen_pc = "constructed" =>
          /\ audio_speaker_patterns # <<>>
          /\ \A k \in 1..Len(audio_speaker_patterns) :
                audio_speaker_patterns[k].speaker_data # <<>>
    /\ gen_pc = "no_patterns" => audio_speaker_patterns = <<>>

\* a generator constructed from a template one of whose audio entries is
\* followed by no speaker entry: that entry's pattern is not stored
C33_Witness ==
    /\ gen_pc = "constructed"
    /\ Len(template) = 3
    /\ \A n \in {1, 3} :
          template[n].url = "audio" /\ template[n].content = "ok"
    /\ template[2].url = "speakers"
    /\ Len(audio_speaker_patterns) = 1
    /\ audio_speaker_patterns[1].speaker_data # <<>>

\* the positions of the audio entries of a log
AudioEntryPositions(es) ==
    {k \in 1..Len(es) : es[k].url = "/extension/audio"}

\* the (connection_id, i) pair of an audio entry
ChunkKey(e) ==
    <<QueryGet(e.queryString, "connection_id"),
      ParseInt(QueryGet(e.queryString, "i"))>>

NoCollisionWithinMeeting ==
    \A n \in 1..Len(outputs) :
        \A j, k \in AudioEntryPositions(outputs[n]) :
            j # k => ChunkKey(outputs[n][j]) # ChunkKey(outputs[n][k])

\* the audio calls that replay_calls makes of a list of entries, when
\* from_har_entry accepts every audio entry of it
LoadsForReplay(es) ==
    \A k \in 1..Len(es) :
        es[k].url = "/extension/audio" => from_har_entry(es[k]).kind = "audio"

\* C35: a list of calls that validate_generated_data accepts, loaded for
\* replay, passes _validate_audio_chunks: no connection's lowest index
\* differs from 0 and no index is reported missing
C35_SelfCheckAsStrictAsReplay ==
    (gen_pc = "valid" /\ LoadsForReplay(synthetic_calls)) =>
        LET audio == AudioCalls(LoadedCalls(synthetic_calls)) IN
          /\ ~ValidationFails(audio)
          /\ \A c \in ConnsOf(audio) : MissingIndices(audio, c) = {}

\* an accepted list with audio entries of two connections, one of them with
\* two indices
C35_Witness ==
    /\ gen_pc = "valid"
    /\ LoadsForReplay(synthetic_calls)
    /\ LET audio == AudioCalls(LoadedCalls(synthetic_calls)) IN
         /\ Len(audio) = 3
         /\ Cardinality(ConnsOf(audio)) = 2
         /\ \E c \in ConnsOf(audio) : IndicesOf(ChunksOf(audio, c)) = {0, 1}

\* the converse fails: a list whose entries of one timestamp are listed with
\* index 1 before index 0 passes _validate_audio_chunks and is rejected by
\* validate_generated_data
ReplayValidationIsWeaker ==
    /\ gen_pc = "invalid"
    /\ \A k \in 1..Len(synthetic_calls) : ~Malformed(synthetic_calls[k])
    /\ LoadsForReplay(synthetic_calls)
    /\ LET audio == AudioCalls(LoadedCalls(synthetic_calls)) IN
         /\ audio # <<>>
         /\ ~ValidationFails(audio)
         /\ \A c \in ConnsOf(audio) : MissingIndices(audio, c) = {}

RecordedSpeakerBodyAccepted ==
    SendSpeakersAccepts(
        <<Latin1Encode(JsonDumpsList(<<<<"T1", MetaOn>>, <<"T2", MetaHalf>>>>))>>)

\* the stored patterns that hold a state of the speaker called name
PatternsWith(name) ==
    {k \in 1..Len(audio_speaker_patterns) :
        \E n \in 1..Len(audio_speaker_patterns[k].speaker_data) :
            audio_speaker_patterns[k].speaker_data[n].speaker_name = name}

\* every period of every speaker is that of a pattern holding the speaker,
\* moved by shift: relative_timestamp + shift to one duration later
PeriodsAt(shift) ==
    \A n \in 1..Len(speaker_patterns) :
        \A m \in 1..Len(speaker_patterns[n].periods) :
            \E k \in PatternsWith(speaker_patterns[n].name) :
                speaker_patterns[n].periods[m] =
                    <<audio_speaker_patterns[k].relative_timestamp + shift,
                      audio_speaker_patterns[k].relative_timestamp + shift
                          + audio_speaker_patterns[k].duration_sec>>

\* C38: every activity interval recorded while a pattern is open starts at
\* that pattern's relative_timestamp and ends one nominal chunk duration
\* later
C38_IntervalAtPatternTime ==
    gen_pc = "constructed" => PeriodsAt(0)

\* the template of one audio entry and one speaker entry with an active
\* speaker: the pattern has relative_timestamp 0 and the speaker's interval
\* is the second half second, not the first
C38_IntervalOneChunkLater ==
    /\ gen_pc = "constructed"
    /\ Len(template) = 2
    /\ Len(audio_speaker_patterns) = 1
    /\ audio_speaker_patterns[1].relative_timestamp = 0
    /\ Len(speaker_patterns) = 1
    /\ speaker_patterns[1].periods = <<<<PatternTicks, 2 * PatternTicks>>>>

\* what the code keeps: the intervals are one nominal duration behind their
\* pattern, and the k-th pattern opened is at k - 1 nominal durations
IntervalsOneDurationBehind ==
    gen_pc = "constructed" =>
        /\ PeriodsAt(PatternTicks)
        /\ \A k \in 1..Len(audio_speaker_patterns) :
              /\ audio_speaker_patterns[k].duration_sec = PatternTicks
              /\ audio_speaker_patterns[k].relative_timestamp
                    \in {n * PatternTicks :
                            n \in 0..(Cardinality(ParsedAudio) - 1)}

\* the entries the meetings' generations have returned, each named by its
\* meeting's place in the scenario and its place in the returned list
GenItems ==
    UNION {{<<n, j>> : j \in 1..Len(outputs[n])} : n \in 1..Len(outputs)}

ItemEntry(i) == outputs[i[1]][i[2]]

GeneratedBefore(x, i) == x[1] < i[1] \/ (x[1] = i[1] /\ x[2] < i[2])

\* the place of an entry in the written log: behind the entries of earlier
\* timestamps and the entries of its own timestamp generated before it
LogPosition(i) ==
    1 + Cardinality({x \in GenItems :
            \/ ItemEntry(x).startedDateTime.ticks
                 < ItemEntry(i).startedDateTime.ticks
            \/ /\ ItemEntry(x).startedDateTime.ticks
                    = ItemEntry(i).startedDateTime.ticks
               /\ GeneratedBefore(x, i)})

\* the audio entry of the slot that entry i was generated in
SlotAudio(i) ==
    <<i[1], CHOOSE a \in 1..i[2] :
              /\ outputs[i[1]][a].url = "/extension/audio"
              /\ \A b \in (a + 1)..i[2] :
                    outputs[i[1]][b].url # "/extension/audio">>

DispatchedAt(n) == {k \in 1..Len(dispatched) : dispatched[k].seq = n}

TypeOK ==
    /\ phase \in {"Idle", "Loading", "NoCalls", "Failed", "Validating",
                  "Aborted", "Replaying", "Completed"}
    /\ pc \in {"next", "sending"}
====
